---- MODULE Spec2Model ----
(***************************************************************************)
(* A model of the plex-volumio plugin: browse navigation over string       *)
(* encoded tokens, connection discovery and ranking, the active connection *)
(* record, and token redaction on the log and state surfaces.              *)
(*                                                                         *)
(* JavaScript strings are modelled as sequences of one-character strings,  *)
(* so that indexOf, slice, parseInt, split and replace are computed the    *)
(* way the code computes them.                                             *)
(***************************************************************************)
EXTENDS Integers, Sequences, FiniteSets, TLC

VARIABLES
  libraries,      \* catalog state: what service.getLibraries() returns, with each library's item count
  pageSize,       \* VolumioAdapter.pageSize
  uri,            \* the navigation token last handed to handleBrowseUri
  page,           \* the NavigationPage (or rejection) it produced
  tkCursor,       \* a structured cursor {route, sort, libraryKey, offset} to encode
  tkToken,        \* the navigation token built from it (Null before encoding)
  tkDecoded,      \* <<what parsePaginationUri returns for the token>>, <<>> before decoding
  resources,      \* what plex.tv lists for the account (GET /api/v2/resources)
  pinAuthorized,  \* whether the user has signed in for the current PIN
  plexLoginState, \* ControllerPlex._plexLoginState: <<>> for null, else <<the record>>
  loginPc,        \* where startPlexLogin / checkPlexLogin is waiting for plex.tv
  config,         \* the persisted connection settings (v-conf): host, port, token, https
  adapter,        \* ControllerPlex.adapter: its plexService (<<>> for null, else <<the
                  \* connection record of its client>>) and its originalServicePushState
  started,        \* whether the host has the plugin started
  servicePushState, \* commandRouter.servicePushState: how many mask wrappers surround the host's own function
  call,           \* the browse call in flight: where it waits, and the service it got from requireService()
  wire,           \* the requests that call has issued so far, in order
  mpdQueue,       \* <<the stream URL MPD was handed last>>, <<>> before any
  surface,        \* <<the state that last reached the host's own servicePushState>>
  log,            \* the lines the last step wrote to the logger
  clHost,         \* the host handed to the address classifier
  clPeer,         \* the host it is compared with
  clNoisy,        \* <<isNoisyAddress(clHost), isNoisyAddress(clPeer)>>, <<>> before the call
  clScore,        \* <<connSortScore(clHost), connSortScore(clPeer)>>, <<>> before the call
  opCall,         \* the browse or explode call in flight: <<>> for none, else <<its entry point,
                  \* token, route and the client its requests go through>>
  opResult,       \* <<what the promise handed to the host settled with>>, <<>> while pending
  gwPhase,        \* where the request in flight stands between http.get and its close
  gwEvents,       \* the events Node has delivered to that request and its response, in order
  gwSettled,      \* what resolve/reject of that request's promise were called with, in order
  gwSent,         \* the arguments of every http.get of the call, in order
  toast,          \* <<the toast the last step pushed to the UI>>, <<>> when it pushed none
  loginPromise,   \* the promise startPlexLogin / checkPlexLogin handed to its caller
  sgKey,          \* the location key the catalog holds for an item
  sgEmitted,      \* <<the tokens and the queue URI the handlers emit for that key>>, <<>> before
  sgDecoded,      \* <<the URI or segment handed back last, and the key decoded from it>>
  shRoute,        \* the route of a browse call that lists tracks: album, playlist or their shuffle
  shInput,        \* the track listing the service returns for the key, in catalog order
  shArray,        \* the array the handler holds: the listing, shuffled in place on shuffle routes
  shI,            \* the loop variable i of shuffleArray; 0 or less when the loop is over
  shChoices,      \* the indices j drawn from Math.random() so far
  shPage,         \* <<the page the call returned>>, <<>> while it runs
  shEarlier,      \* <<the page an earlier call with the same inputs returned>>, <<>> for none
  plKey,          \* the itemsKey of a playlist of the catalog, <<>> when it holds none
  plSize,         \* the number of tracks in that playlist
  plOptions,      \* the adapter's browse options: pageSize and shuffleEnabled
  plUri,          \* the token of the last browse call about the playlist
  plPage,         \* <<the page that call returned>>, <<>> before any
  urInput,       \* the builder called, the connection and the key or path handed to it
  urUrl,         \* <<the URL it returned>>, <<>> before the call
  paInput,       \* <<the track handed to clearAddPlayTrack and the crossfade options>>
  paPc,          \* the command _clearAddPlayTrack awaits, "idle" before and "done" after
  paSent,        \* what went to MPD, one entry per await, with MPD's answer
  paConsume,     \* <<the number of entries sent when setConsumeUpdateService ran>>
  paResult,      \* <<how the call settled>>, <<>> while it has not
  pmTracks,      \* PlaylistManager.tracks
  pmPosition,    \* PlaylistManager.position
  pmShuffle,     \* PlaylistManager.shuffle
  pmRepeat,      \* PlaylistManager.repeat
  pmShuffleOrder, \* PlaylistManager.shuffleOrder, 0-based track indices
  pmLast,        \* the last PlaylistManager method called, with the index removed or the flag of setShuffle
  pmWalk,        \* the tracks visited since shuffle was enabled with repeat off
  pmSnapshot,    \* <<the playlist of the last UI state snapshot>>, <<>> once the manager changed
  ctlState,      \* PlaybackController.state
  ctlPositionMs, \* PlaybackController.positionMs
  ctlCurrentTrack, \* the id of PlaybackController.currentTrack, "null" for none
  ctlEmitted,    \* the events the last call emitted
  ctlLast,       \* the last method called on the controller
  wkOn,          \* whether a client is walking the "Load more..." links from a cursor-less token
  wkPages,       \* the pages of that walk so far: the collection, offset and item count of each
  lsObjects,     \* every login state object startPlexLogin has created, in order of creation
  lsCurrent,     \* ControllerPlex._plexLoginState as an index into lsObjects, 0 for null
  lsCalls,       \* the startPlexLogin and checkPlexLogin calls waiting for plex.tv
  lsPolls,       \* the PIN polls issued so far: the PIN polled and what plex.tv answered
  lsSignedIn     \* the PINs the user has signed in for

browseVars == <<libraries, pageSize, uri, page>>

tokenVars == <<tkCursor, tkToken, tkDecoded>>

loginVars == <<resources, pinAuthorized, plexLoginState, loginPc, loginPromise>>

pluginVars == <<config, adapter, started, servicePushState, call, wire, mpdQueue, surface>>

classifyVars == <<clHost, clPeer, clNoisy, clScore>>

gatewayVars == <<opCall, opResult, gwPhase, gwEvents, gwSettled, gwSent>>

segmentVars == <<sgKey, sgEmitted, sgDecoded>>

shuffleVars == <<shRoute, shInput, shArray, shI, shChoices, shPage, shEarlier>>

playlistVars == <<plKey, plSize, plOptions, plUri, plPage>>

urlVars == <<urInput, urUrl>>

playbackVars == <<paInput, paPc, paSent, paConsume, paResult>>

managerVars == <<pmTracks, pmPosition, pmShuffle, pmRepeat, pmShuffleOrder, pmLast, pmWalk, pmSnapshot>>

controllerVars == <<ctlState, ctlPositionMs, ctlCurrentTrack, ctlEmitted, ctlLast>>

walkVars == <<wkOn, wkPages>>

loginsVars == <<lsObjects, lsCurrent, lsCalls, lsPolls, lsSignedIn>>

\* the variables of the specifications of single units
unitVars == <<segmentVars, shuffleVars, playlistVars, urlVars, playbackVars, managerVars, controllerVars, walkVars, loginsVars>>

mainVars == <<browseVars, tokenVars, classifyVars, loginVars, pluginVars, gatewayVars>>

outsideSegment == <<mainVars, shuffleVars, playlistVars, urlVars, playbackVars, managerVars, controllerVars, walkVars, loginsVars>>

outsideShuffle == <<mainVars, segmentVars, playlistVars, urlVars, playbackVars, managerVars, controllerVars, walkVars, loginsVars>>

outsidePlaylist == <<mainVars, segmentVars, shuffleVars, urlVars, playbackVars, managerVars, controllerVars, walkVars, loginsVars>>

outsideUrl == <<mainVars, segmentVars, shuffleVars, playlistVars, playbackVars, managerVars, controllerVars, walkVars, loginsVars>>

outsidePlayback == <<mainVars, segmentVars, shuffleVars, playlistVars, urlVars, managerVars, controllerVars, walkVars, loginsVars>>

outsideManager == <<mainVars, segmentVars, shuffleVars, playlistVars, urlVars, playbackVars, controllerVars, walkVars, loginsVars>>

outsideController == <<mainVars, segmentVars, shuffleVars, playlistVars, urlVars, playbackVars, managerVars, walkVars, loginsVars>>

outsideWalk == <<mainVars, segmentVars, shuffleVars, playlistVars, urlVars, playbackVars, managerVars, controllerVars, loginsVars>>

outsideLogins == <<mainVars, segmentVars, shuffleVars, playlistVars, urlVars, playbackVars, managerVars, controllerVars, walkVars>>

vars == <<libraries, pageSize, uri, page, tkCursor, tkToken, tkDecoded,
          resources, pinAuthorized, plexLoginState, loginPc,
          config, adapter, started, servicePushState, call, wire,
          mpdQueue, surface, log, clHost, clPeer, clNoisy, clScore,
          opCall, opResult, gwPhase, gwEvents, gwSettled, gwSent, toast, loginPromise,
          sgKey, sgEmitted, sgDecoded,
          shRoute, shInput, shArray, shI, shChoices, shPage, shEarlier,
          plKey, plSize, plOptions, plUri, plPage,
          urInput, urUrl,
          paInput, paPc, paSent, paConsume, paResult,
          pmTracks, pmPosition, pmShuffle, pmRepeat, pmShuffleOrder, pmLast, pmWalk, pmSnapshot,
          ctlState, ctlPositionMs, ctlCurrentTrack, ctlEmitted, ctlLast,
          wkOn, wkPages,
          lsObjects, lsCurrent, lsCalls, lsPolls, lsSignedIn>>

----------------------------------------------------------------------------
(* Bounds of the model.                                                    *)

MaxLibs == 2          \* libraries in the catalog
MaxItems == 2         \* items in one library
MaxPageSize == 1      \* small configured page sizes (the default is always included)
MaxSortChoice == 1    \* sort-picker entries a client follows
MaxConns == 2         \* connections one server advertises
MaxWrappers == 2      \* state-mask wrappers nested around servicePushState

----------------------------------------------------------------------------
(* JavaScript string and number primitives.                                *)

\* null / undefined
Null == <<"null">>

Digits == <<"0", "1", "2", "3", "4", "5", "6", "7", "8", "9">>

IsDigit(c) == \E d \in 1..10 : Digits[d] = c

DigitVal(c) == (CHOOSE d \in 1..10 : Digits[d] = c) - 1

RECURSIVE ToStr(_)
\* String(n) for an integer n
ToStr(n) ==
  IF n < 0 THEN <<"-">> \o ToStr(-n)
  ELSE IF n < 10 THEN <<Digits[n + 1]>>
  ELSE ToStr(n \div 10) \o <<Digits[(n % 10) + 1]>>

\* s.indexOf(c): 0-based, -1 when absent
IndexOf(s, c) ==
  IF \E i \in 1..Len(s) : s[i] = c
  THEN (CHOOSE i \in 1..Len(s) : s[i] = c /\ \A j \in 1..(i - 1) : s[j] # c) - 1
  ELSE -1

\* s.slice(from)
Slice(s, from) == SubSeq(s, from + 1, Len(s))

\* s.slice(from, to)
SliceTo(s, from, to) == SubSeq(s, from + 1, to)

\* s.startsWith(p)
StartsWith(s, p) == Len(s) >= Len(p) /\ SubSeq(s, 1, Len(p)) = p

RECURSIVE DecVal(_)
DecVal(s) ==
  IF s = <<>> THEN 0 ELSE DecVal(SubSeq(s, 1, Len(s) - 1)) * 10 + DigitVal(s[Len(s)])

\* parseInt(s, 10): optional sign, then the longest prefix of decimal digits;
\* NaN when there is none.
ParseInt(s) ==
  LET neg == Len(s) > 0 /\ s[1] = "-"
      body == IF Len(s) > 0 /\ (s[1] = "-" \/ s[1] = "+") THEN Slice(s, 1) ELSE s
      k == CHOOSE n \in 0..Len(body) :
             /\ \A i \in 1..n : IsDigit(body[i])
             /\ (n < Len(body) => ~IsDigit(body[n + 1]))
  IN IF k = 0 THEN [nan |-> TRUE, val |-> 0]
     ELSE [nan |-> FALSE, val |-> IF neg THEN -DecVal(SubSeq(body, 1, k)) ELSE DecVal(SubSeq(body, 1, k))]

\* x || 0 for a number x
OrZero(x) == IF x.nan THEN 0 ELSE x.val

Max(a, b) == IF a >= b THEN a ELSE b

Min(a, b) == IF a <= b THEN a ELSE b

----------------------------------------------------------------------------
(* Browse navigation: tokens.                                              *)

DEFAULT_PAGE_SIZE == 100

PlexRoot == <<"p", "l", "e", "x">>

ArtistsUri == <<"p", "l", "e", "x", "/", "a", "r", "t", "i", "s", "t", "s">>

AlbumsUri == <<"p", "l", "e", "x", "/", "a", "l", "b", "u", "m", "s">>

Routes == {"artists", "albums"}

RouteUri(route) == IF route = "artists" THEN ArtistsUri ELSE AlbumsUri

ARTIST_SORT_OPTIONS ==
  << <<"t", "i", "t", "l", "e", "S", "o", "r", "t", ":", "a", "s", "c">>,
     <<"t", "i", "t", "l", "e", "S", "o", "r", "t", ":", "d", "e", "s", "c">>,
     <<"a", "d", "d", "e", "d", "A", "t", ":", "d", "e", "s", "c">>,
     <<"a", "d", "d", "e", "d", "A", "t", ":", "a", "s", "c">>,
     <<"v", "i", "e", "w", "C", "o", "u", "n", "t", ":", "d", "e", "s", "c">>,
     <<"v", "i", "e", "w", "C", "o", "u", "n", "t", ":", "a", "s", "c">> >>

ALBUM_SORT_OPTIONS ==
  << <<"a", "r", "t", "i", "s", "t", ".", "t", "i", "t", "l", "e", "S", "o", "r", "t", ":", "a", "s", "c">>,
     <<"a", "r", "t", "i", "s", "t", ".", "t", "i", "t", "l", "e", "S", "o", "r", "t", ":", "d", "e", "s", "c">>,
     <<"t", "i", "t", "l", "e", "S", "o", "r", "t", ":", "a", "s", "c">>,
     <<"t", "i", "t", "l", "e", "S", "o", "r", "t", ":", "d", "e", "s", "c">>,
     <<"o", "r", "i", "g", "i", "n", "a", "l", "l", "y", "A", "v", "a", "i", "l", "a", "b", "l", "e", "A", "t", ":", "d", "e", "s", "c">>,
     <<"o", "r", "i", "g", "i", "n", "a", "l", "l", "y", "A", "v", "a", "i", "l", "a", "b", "l", "e", "A", "t", ":", "a", "s", "c">>,
     <<"a", "d", "d", "e", "d", "A", "t", ":", "d", "e", "s", "c">>,
     <<"a", "d", "d", "e", "d", "A", "t", ":", "a", "s", "c">> >>

SortOptions(route) == IF route = "artists" THEN ARTIST_SORT_OPTIONS ELSE ALBUM_SORT_OPTIONS

\* The sort directive of a token: the text between "~" and the cursor ("@"),
\* null when the token carries no "~".
ParseSort(u) ==
  LET atIndex == IndexOf(u, "@")
      head == IF atIndex = -1 THEN u ELSE SliceTo(u, 0, atIndex)
      tildeIndex == IndexOf(head, "~")
  IN IF tildeIndex = -1 THEN Null ELSE Slice(head, tildeIndex + 1)

\* Mutant: the offset is read from the colon on (an off-by-one slice).
parsePaginationUriSliceAtColon(u) ==
  LET atIndex == IndexOf(u, "@")
      paginationPart == Slice(u, atIndex + 1)
      colonIndex == IndexOf(paginationPart, ":")
  IN IF atIndex = -1
     THEN [libraryKey |-> Null, offset |-> 0, sort |-> ParseSort(u)]
     ELSE IF colonIndex = -1
     THEN [libraryKey |-> paginationPart, offset |-> 0, sort |-> ParseSort(u)]
     ELSE [libraryKey |-> SliceTo(paginationPart, 0, colonIndex),
           offset |-> OrZero(ParseInt(Slice(paginationPart, colonIndex))),
           sort |-> ParseSort(u)]

parsePaginationUri(u) ==
  LET atIndex == IndexOf(u, "@")
      paginationPart == Slice(u, atIndex + 1)
      colonIndex == IndexOf(paginationPart, ":")
  IN IF atIndex = -1
     THEN [libraryKey |-> Null, offset |-> 0, sort |-> ParseSort(u)]
     ELSE IF colonIndex = -1
     THEN [libraryKey |-> paginationPart, offset |-> 0, sort |-> ParseSort(u)]
     ELSE [libraryKey |-> SliceTo(paginationPart, 0, colonIndex),
           offset |-> OrZero(ParseInt(Slice(paginationPart, colonIndex + 1))),
           sort |-> ParseSort(u)]

----------------------------------------------------------------------------
(* Browse navigation: the catalog facade and the collection-list handlers.  *)

\* libraries.findIndex((l) => l.id === key): 0-based, -1 when absent
FindIndex(libs, key) ==
  IF \E i \in 1..Len(libs) : libs[i].id = key
  THEN (CHOOSE i \in 1..Len(libs) : libs[i].id = key /\ \A j \in 1..(i - 1) : libs[j].id # key) - 1
  ELSE -1

getPaginatedIgnoresLimit(libs, libraryKey, offset, limit) ==
  LET idx == FindIndex(libs, libraryKey)
  IN IF idx = -1
     THEN [ok |-> FALSE, count |-> 0, totalSize |-> 0]
     ELSE [ok |-> TRUE,
           count |-> Max(0, libs[idx + 1].size - offset),
           totalSize |-> libs[idx + 1].size]

\* service.getArtistsPaginated / getAlbumsPaginated over the catalog state:
\* the server returns the items [offset, offset + limit) of the section and
\* its total size, and answers a section it does not know with an error.
getPaginated(libs, libraryKey, offset, limit) ==
  LET idx == FindIndex(libs, libraryKey)
  IN IF idx = -1
     THEN [ok |-> FALSE, count |-> 0, totalSize |-> 0]
     ELSE [ok |-> TRUE,
           count |-> Max(0, Min(limit, libs[idx + 1].size - offset)),
           totalSize |-> libs[idx + 1].size]

\* const sortPart = sort ? `~${sort}` : ""; const baseUri = `plex/artists${sortPart}`
BaseUri(route, sort) ==
  RouteUri(route) \o (IF sort # Null /\ sort # <<>> THEN <<"~">> \o sort ELSE <<>>)

\* `${baseUri}@${libraryKey}:${offset}`: the token of cursor {libraryKey, offset}
CursorUri(baseUri, libraryKey, offset) ==
  baseUri \o <<"@">> \o libraryKey \o <<":">> \o ToStr(offset)

\* Mutant of the "Previous page" item: the sort directive is left out.
PrevUriDropsSort(route, sort, libraryKey, offset, limit) ==
  IF offset > 0
  THEN IF Max(0, offset - limit) = 0
       THEN RouteUri(route)
       ELSE CursorUri(RouteUri(route), libraryKey, Max(0, offset - limit))
  ELSE Null

\* The "Previous page" item: Null when the page carries none.
PrevUri(route, sort, libraryKey, offset, limit) ==
  IF offset > 0
  THEN IF Max(0, offset - limit) = 0
       THEN BaseUri(route, sort)
       ELSE CursorUri(BaseUri(route, sort), libraryKey, Max(0, offset - limit))
  ELSE Null

\* Mutants of the "Load more..." item.
LoadMoreUriNoRollover(libs, baseUri, libraryKey, nextOffset, totalSize) ==
  IF nextOffset < totalSize \/ FindIndex(libs, libraryKey) + 2 <= Len(libs)
  THEN CursorUri(baseUri, libraryKey, nextOffset)
  ELSE Null

LoadMoreUriWrapsAround(libs, baseUri, libraryKey, nextOffset, totalSize) ==
  IF nextOffset < totalSize
  THEN CursorUri(baseUri, libraryKey, nextOffset)
  ELSE IF Len(libs) > 0
       THEN CursorUri(baseUri, libs[((FindIndex(libs, libraryKey) + 1) % Len(libs)) + 1].id, 0)
       ELSE Null

LoadMoreUriSkipsItem(libs, baseUri, libraryKey, nextOffset, totalSize) ==
  IF nextOffset < totalSize
  THEN CursorUri(baseUri, libraryKey, nextOffset + 1)
  ELSE LET currentLibIndex == FindIndex(libs, libraryKey)
       IN IF currentLibIndex + 2 <= Len(libs)
          THEN CursorUri(baseUri, libs[currentLibIndex + 2].id, 0)
          ELSE Null

\* The "Load more..." item: Null when the page carries none.
LoadMoreUri(libs, baseUri, libraryKey, nextOffset, totalSize) ==
  IF nextOffset < totalSize
  THEN CursorUri(baseUri, libraryKey, nextOffset)
  ELSE LET currentLibIndex == FindIndex(libs, libraryKey)
       IN IF currentLibIndex + 2 <= Len(libs)
          THEN CursorUri(baseUri, libs[currentLibIndex + 2].id, 0)
          ELSE Null

\* The "Sort by" list: one token per sort option.
SortUris(route) ==
  [i \in 1..Len(SortOptions(route)) |-> RouteUri(route) \o <<"~">> \o SortOptions(route)[i]]

NoPage ==
  [status |-> "rejected", route |-> "none", libraryKey |-> Null, offset |-> 0,
   sort |-> Null, limit |-> 0, count |-> 0, totalSize |-> 0,
   prev |-> Null, more |-> Null, sortUris |-> <<>>]

\* browseArtists and browseAlbums: the two handlers differ only in the route
\* name, the sort options and the facade call.
BrowseCollection(route, libs, pagination, limit) ==
  LET libraryKey ==
        IF pagination.libraryKey = Null
        THEN (IF Len(libs) > 0 THEN libs[1].id ELSE Null)
        ELSE pagination.libraryKey
      sort == pagination.sort
      result == getPaginated(libs, libraryKey, pagination.offset, limit)
      nextOffset == pagination.offset + result.count
  IN IF pagination.libraryKey = Null /\ (libraryKey = Null \/ libraryKey = <<>>)
     THEN [NoPage EXCEPT !.status = "empty", !.route = route]
     ELSE IF ~result.ok
     THEN [NoPage EXCEPT !.route = route, !.libraryKey = libraryKey,
                         !.offset = pagination.offset, !.sort = sort, !.limit = limit]
     ELSE [status |-> "ok", route |-> route, libraryKey |-> libraryKey,
           offset |-> pagination.offset, sort |-> sort, limit |-> limit,
           count |-> result.count, totalSize |-> result.totalSize,
           prev |-> PrevUri(route, sort, libraryKey, pagination.offset, limit),
           more |-> LoadMoreUri(libs, BaseUri(route, sort), libraryKey, nextOffset, result.totalSize),
           sortUris |-> SortUris(route)]

browseArtists(libs, pagination, limit) == BrowseCollection("artists", libs, pagination, limit)

browseAlbums(libs, pagination, limit) == BrowseCollection("albums", libs, pagination, limit)

browseRoot == [NoPage EXCEPT !.status = "root"]

\* uri === "plex/artists" || uri.startsWith("plex/artists@")
MatchesCursorRoute(u, base) == u = base \/ StartsWith(u, base \o <<"@">>)

\* a token whose route segment carries a sort directive: plex/artists~<sort>[@...]
MatchesSortRoute(u, base) == StartsWith(u, base \o <<"~">>)

handleBrowseUri(u, libs, limit) ==
  IF u = PlexRoot THEN browseRoot
  ELSE IF MatchesCursorRoute(u, ArtistsUri) \/ MatchesSortRoute(u, ArtistsUri)
  THEN browseArtists(libs, parsePaginationUri(u), limit)
  ELSE IF MatchesCursorRoute(u, AlbumsUri) \/ MatchesSortRoute(u, AlbumsUri)
  THEN browseAlbums(libs, parsePaginationUri(u), limit)
  ELSE NoPage

----------------------------------------------------------------------------
(* Connection discovery: address classification and ranking.               *)

\* the number of decimal digits at s[pos..] (1-based), as a greedy \d+ takes them
DigitRun(s, pos) ==
  CHOOSE n \in 0..(Len(s) + 1 - Min(pos, Len(s) + 1)) :
    /\ \A i \in 0..(n - 1) : IsDigit(s[pos + i])
    /\ (pos + n <= Len(s) => ~IsDigit(s[pos + n]))

RECURSIVE MatchFrom(_, _, _)
\* An anchored match of s from position pos against a pattern whose elements
\* are "D+" for (\d+), "$$" for the end of the string, or one literal
\* character; caps are the digit groups.
MatchFrom(s, pos, pat) ==
  IF pat = <<>> THEN [ok |-> TRUE, caps |-> <<>>]
  ELSE IF Head(pat) = "D+"
    THEN LET n == DigitRun(s, pos)
             rest == MatchFrom(s, pos + n, Tail(pat))
         IN IF n = 0 \/ ~rest.ok THEN [ok |-> FALSE, caps |-> <<>>]
            ELSE [ok |-> TRUE, caps |-> <<SubSeq(s, pos, pos + n - 1)>> \o rest.caps]
  ELSE IF Head(pat) = "$$"
    THEN [ok |-> pos = Len(s) + 1, caps |-> <<>>]
  ELSE IF pos <= Len(s) /\ s[pos] = Head(pat)
    THEN MatchFrom(s, pos + 1, Tail(pat))
  ELSE [ok |-> FALSE, caps |-> <<>>]

\* host.match(/^(\d+)-(\d+)-(\d+)-(\d+)\./)
MatchDashIp(host) == MatchFrom(host, 1, <<"D+", "-", "D+", "-", "D+", "-", "D+", ".">>)

\* m[1] + '.' + m[2] + '.' + m[3] + '.' + m[4]
JoinDots(m) == m[1] \o <<".">> \o m[2] \o <<".">> \o m[3] \o <<".">> \o m[4]

\* /^\d+\.\d+\.\d+\.\d+$/.test(host)
IsRawIp(host) == MatchFrom(host, 1, <<"D+", ".", "D+", ".", "D+", ".", "D+", "$$">>).ok

\* /^172\.(1[6-9]|2\d|3[01])\./.test(host)
Matches172(host) ==
  /\ StartsWith(host, <<"1", "7", "2", ".">>)
  /\ Len(host) >= 7
  /\ host[7] = "."
  /\ \/ host[5] = "1" /\ host[6] \in {"6", "7", "8", "9"}
     \/ host[5] = "2" /\ IsDigit(host[6])
     \/ host[5] = "3" /\ host[6] \in {"0", "1"}

isNoisyAddressNoDecode(host) ==
  Matches172(host) \/ StartsWith(host, <<"1", "2", "7", ".">>) \/ StartsWith(host, <<"1", "6", "9", ".", "2", "5", "4", ".">>)

RECURSIVE isNoisyAddress(_)
isNoisyAddress(host) ==
  IF Matches172(host) \/ StartsWith(host, <<"1", "2", "7", ".">>) \/ StartsWith(host, <<"1", "6", "9", ".", "2", "5", "4", ".">>)
  THEN TRUE
  ELSE LET m == MatchDashIp(host)
       IN IF m.ok THEN isNoisyAddress(JoinDots(m.caps)) ELSE FALSE

connSortScoreNoDecode(host) ==
  LET m192 == MatchFrom(host, 1, <<"1", "9", "2", ".", "1", "6", "8", ".", "D+", ".">>)
  IN IF m192.ok THEN ParseInt(m192.caps[1]).val
     ELSE IF StartsWith(host, <<"1", "0", ".">>) THEN 300
     ELSE 400

connSortScore(host) ==
  LET m == MatchDashIp(host)
      ip == IF m.ok THEN JoinDots(m.caps) ELSE host
      m192 == MatchFrom(ip, 1, <<"1", "9", "2", ".", "1", "6", "8", ".", "D+", ".">>)
  IN IF m192.ok THEN ParseInt(m192.caps[1]).val
     ELSE IF StartsWith(ip, <<"1", "0", ".">>) THEN 300
     ELSE 400

Http == <<"h", "t", "t", "p">>

Https == <<"h", "t", "t", "p", "s">>

\* the length of the longest prefix of s made of characters other than ':' and '/'
HostRun(s) ==
  CHOOSE n \in 0..Len(s) :
    /\ \A i \in 1..n : s[i] \notin {":", "/"}
    /\ (n < Len(s) => s[n + 1] \in {":", "/"})

\* (uri || '').match(/^(https?):\/\/([^:/]+)(?::(\d+))?/); ok = FALSE is null
parseConnUri(u) ==
  LET s == IF u = Null THEN <<>> ELSE u
      protocol == IF StartsWith(s, <<"h", "t", "t", "p", "s", ":", "/", "/">>) THEN Https
                  ELSE IF StartsWith(s, <<"h", "t", "t", "p", ":", "/", "/">>) THEN Http
                  ELSE <<>>
      rest == Slice(s, Len(protocol) + 3)
      n == HostRun(rest)
      digits == IF n < Len(rest) /\ rest[n + 1] = ":" THEN DigitRun(rest, n + 2) ELSE 0
      number == IF digits = 0 THEN 0 ELSE DecVal(SubSeq(rest, n + 2, n + 1 + digits))
  IN IF protocol = <<>> \/ n = 0
     THEN [ok |-> FALSE, protocol |-> <<>>, host |-> <<>>, port |-> 0]
     ELSE [ok |-> TRUE, protocol |-> protocol, host |-> SubSeq(rest, 1, n),
           port |-> IF number # 0 THEN number ELSE IF protocol = Https THEN 443 ELSE 80]
----------------------------------------------------------------------------
(* Connection discovery: candidates, ranking, deduplication, fallback.     *)
(* A resource is [clientIdentifier, name, accessToken, provides,           *)
(* connections]; a connection is [uri, protocol, address, port, local].    *)

\* U+2014, the dash of an option label (characters outside ASCII are named
\* by their code point and count as one character)
EmDash == "u2014"

LowerLetters == <<"a", "b", "c", "d", "e", "f", "g", "h", "i", "j", "k", "l", "m", "n", "o", "p", "q", "r", "s", "t", "u", "v", "w", "x", "y", "z">>

UpperLetters == <<"A", "B", "C", "D", "E", "F", "G", "H", "I", "J", "K", "L", "M", "N", "O", "P", "Q", "R", "S", "T", "U", "V", "W", "X", "Y", "Z">>

\* s.toUpperCase()
ToUpperCase(s) ==
  [i \in 1..Len(s) |->
     IF \E k \in 1..26 : LowerLetters[k] = s[i]
     THEN UpperLetters[CHOOSE k \in 1..26 : LowerLetters[k] = s[i]]
     ELSE s[i]]

\* s.indexOf(sub) >= 0
Includes(s, sub) ==
  \E i \in 0..(Len(s) - Len(sub)) : SubSeq(s, i + 1, i + Len(sub)) = sub

\* resources.filter(r => r.provides && r.provides.indexOf('server') >= 0)
ProvidesServer(r) == r.provides # <<>> /\ Includes(r.provides, <<"s", "e", "r", "v", "e", "r">>)

Scope(c) == IF c.local THEN <<"l", "o", "c", "a", "l">> ELSE <<"r", "e", "m", "o", "t", "e">>

\* the candidates one connection contributes: none when it is filtered out,
\* itself, and the recovered plain-HTTP candidate at the dash-decoded address
CandidatesOfNoRecovery(s, c) ==
  LET parsed == parseConnUri(c.uri)
      host == IF parsed.ok /\ parsed.host # <<>> THEN parsed.host ELSE c.address
      port == IF parsed.ok /\ parsed.port # 0 THEN parsed.port ELSE c.port
  IN IF isNoisyAddress(host) \/ (c.protocol = Https /\ IsRawIp(host)) THEN <<>>
     ELSE <<[s |-> s, c |-> c, host |-> host, port |-> port, protocol |-> c.protocol]>>

CandidatesOfKeepsBareTls(s, c) ==
  LET parsed == parseConnUri(c.uri)
      host == IF parsed.ok /\ parsed.host # <<>> THEN parsed.host ELSE c.address
      port == IF parsed.ok /\ parsed.port # 0 THEN parsed.port ELSE c.port
  IN IF isNoisyAddress(host) THEN <<>>
     ELSE <<[s |-> s, c |-> c, host |-> host, port |-> port, protocol |-> c.protocol]>>
          \o (IF c.protocol = Https /\ c.local /\ MatchDashIp(host).ok
              THEN <<[s |-> s, c |-> c, host |-> JoinDots(MatchDashIp(host).caps),
                      port |-> port, protocol |-> Http]>>
              ELSE <<>>)

CandidatesOf(s, c) ==
  LET parsed == parseConnUri(c.uri)
      host == IF parsed.ok /\ parsed.host # <<>> THEN parsed.host ELSE c.address
      port == IF parsed.ok /\ parsed.port # 0 THEN parsed.port ELSE c.port
      protocol == c.protocol
      isRawIp == IsRawIp(host)
      dashIp == MatchDashIp(host)
      rawIp == JoinDots(dashIp.caps)
  IN IF isNoisyAddress(host) THEN <<>>
     ELSE IF protocol = Https /\ isRawIp THEN <<>>
     ELSE <<[s |-> s, c |-> c, host |-> host, port |-> port, protocol |-> protocol]>>
          \o (IF protocol = Https /\ c.local /\ dashIp.ok /\ ~isNoisyAddress(rawIp)
              THEN <<[s |-> s, c |-> c, host |-> rawIp, port |-> port, protocol |-> Http]>>
              ELSE <<>>)

RECURSIVE ServerCandidates(_, _)
ServerCandidates(s, conns) ==
  IF conns = <<>> THEN <<>>
  ELSE CandidatesOf(s, Head(conns)) \o ServerCandidates(s, Tail(conns))

RECURSIVE CollectCandidates(_)
\* step 1: servers.forEach(s => s.connections.forEach(...))
CollectCandidates(servers) ==
  IF servers = <<>> THEN <<>>
  ELSE ServerCandidates(Head(servers), Head(servers).connections)
       \o CollectCandidates(Tail(servers))

RECURSIVE InsertByScore(_, _)
\* x goes behind every element that does not score higher (a stable sort)
InsertByScore(sorted, x) ==
  IF sorted = <<>> THEN <<x>>
  ELSE IF connSortScore(Head(sorted).host) <= connSortScore(x.host)
    THEN <<Head(sorted)>> \o InsertByScore(Tail(sorted), x)
  ELSE <<x>> \o sorted

SortCandidatesKeepsDiscoveryOrder(cands) == cands

RECURSIVE SortCandidatesFrom(_, _)
SortCandidatesFrom(sorted, cands) ==
  IF cands = <<>> THEN sorted
  ELSE SortCandidatesFrom(InsertByScore(sorted, Head(cands)), Tail(cands))

\* step 2: candidates.sort((a, b) => connSortScore(a.host) - connSortScore(b.host))
SortCandidates(cands) == SortCandidatesFrom(<<>>, cands)

\* item.s.clientIdentifier + '|' + scope + '|' + item.protocol
CandidateKey(item) ==
  item.s.clientIdentifier \o <<"|">> \o Scope(item.c) \o <<"|">> \o item.protocol

ToOption(item) ==
  [value |-> item.s.clientIdentifier \o <<"|">> \o item.host \o <<"|">>
             \o ToStr(item.port) \o <<"|">> \o item.protocol,
   label |-> item.s.name \o <<" ", EmDash, " ">> \o Scope(item.c) \o <<" ">>
             \o ToUpperCase(item.protocol)
             \o <<" ", "(">> \o item.host \o <<":">> \o ToStr(item.port) \o <<")">>]

RECURSIVE Dedup(_, _)
\* step 3: the first candidate of every key, in ranked order
Dedup(cands, seen) ==
  IF cands = <<>> THEN <<>>
  ELSE IF CandidateKey(Head(cands)) \in seen THEN Dedup(Tail(cands), seen)
  ELSE <<Head(cands)>> \o Dedup(Tail(cands), seen \cup {CandidateKey(Head(cands))})

Survivors(servers) == Dedup(SortCandidates(CollectCandidates(servers)), {})

\* one raw plain-HTTP connection as an option
FallbackOption(s, c) ==
  [value |-> s.clientIdentifier \o <<"|">> \o c.address \o <<"|">>
             \o ToStr(c.port) \o <<"|">> \o Http,
   label |-> s.name \o <<" ", EmDash, " ">> \o Scope(c) \o <<" ", "H", "T", "T", "P", " ", "(">>
             \o c.address \o <<":">> \o ToStr(c.port) \o <<")">>]

RECURSIVE ServerFallback(_, _)
ServerFallback(s, conns) ==
  IF conns = <<>> THEN <<>>
  ELSE (IF Head(conns).protocol # Http THEN <<>> ELSE <<FallbackOption(s, Head(conns))>>)
       \o ServerFallback(s, Tail(conns))

RECURSIVE FallbackOptionsFiltered(_)
FallbackOptionsFiltered(servers) ==
  IF servers = <<>> THEN <<>>
  ELSE ServerFallback(Head(servers),
                      SelectSeq(Head(servers).connections, LAMBDA c : ~isNoisyAddress(c.address)))
       \o FallbackOptionsFiltered(Tail(servers))

RECURSIVE FallbackOptions(_)
\* the fallback: every raw plain-HTTP connection of every server
FallbackOptions(servers) ==
  IF servers = <<>> THEN <<>>
  ELSE ServerFallback(Head(servers), Head(servers).connections)
       \o FallbackOptions(Tail(servers))

\* the connectionOptions a completed check stores
ConnectionOptions(servers) ==
  LET kept == Survivors(servers)
  IN IF kept = <<>> THEN FallbackOptions(servers)
     ELSE [i \in 1..Len(kept) |-> ToOption(kept[i])]
----------------------------------------------------------------------------
(* The plex.tv account: the resources a discovery response lists.          *)

DotIp(a, b, c, d) ==
  ToStr(a) \o <<".">> \o ToStr(b) \o <<".">> \o ToStr(c) \o <<".">> \o ToStr(d)

\* the plex.direct hostname that encodes a.b.c.d with dashes
DashHost(a, b, c, d) ==
  ToStr(a) \o <<"-">> \o ToStr(b) \o <<"-">> \o ToStr(c) \o <<"-">> \o ToStr(d)
  \o <<".", "e", "x", "a", "m", "p", "l", "e", ".", "p", "l", "e", "x", ".", "d", "i", "r", "e", "c", "t">>

Conn(protocol, host, address, port, local) ==
  [uri |-> protocol \o <<":", "/", "/">> \o host \o <<":">> \o ToStr(port),
   protocol |-> protocol, address |-> address, port |-> port, local |-> local]

\* the connections a server may advertise
ConnPool ==
  { Conn(Https, DashHost(10, 0, 0, 5), DotIp(10, 0, 0, 5), 32400, TRUE),
    Conn(Https, DashHost(172, 17, 0, 5), DotIp(172, 17, 0, 5), 32400, TRUE),
    Conn(Https, DashHost(203, 0, 113, 9), DotIp(203, 0, 113, 9), 8443, FALSE),
    Conn(Https, DotIp(192, 168, 1, 50), DotIp(192, 168, 1, 50), 32400, TRUE),
    Conn(Http, DotIp(192, 168, 1, 50), DotIp(192, 168, 1, 50), 32400, TRUE),
    Conn(Http, DotIp(192, 168, 16, 2), DotIp(192, 168, 16, 2), 32400, TRUE),
    Conn(Http, DotIp(172, 16, 0, 3), DotIp(172, 16, 0, 3), 32400, TRUE),
    Conn(Http, DotIp(203, 0, 113, 9), DotIp(203, 0, 113, 9), 8443, FALSE),
    [uri |-> Null, protocol |-> Http, address |-> DotIp(10, 0, 0, 9),
     port |-> 32400, local |-> TRUE] }

ConnLists == UNION {[1..k -> ConnPool] : k \in 0..MaxConns}

ServerA(conns) ==
  [clientIdentifier |-> <<"s", "r", "v", "A">>, name |-> <<"D", "e", "n">>, accessToken |-> <<"t", "o", "k", "A", "1">>,
   provides |-> <<"s", "e", "r", "v", "e", "r">>, connections |-> conns]

\* a second server of the account; it shares no token with it
ServerB(conns) ==
  [clientIdentifier |-> <<"s", "r", "v", "B">>, name |-> <<"L", "o", "f", "t">>, accessToken |-> <<>>,
   provides |-> <<"c", "l", "i", "e", "n", "t", ",", "s", "e", "r", "v", "e", "r">>, connections |-> conns]

\* a device that plays but serves nothing
Player ==
  [clientIdentifier |-> <<"t", "v", "0", "1">>, name |-> <<"T", "V">>, accessToken |-> <<"t", "o", "k", "P", "7">>,
   provides |-> <<"c", "l", "i", "e", "n", "t", ",", "p", "l", "a", "y", "e", "r">>,
   connections |-> <<Conn(Http, DotIp(192, 168, 1, 77), DotIp(192, 168, 1, 77), 32500, TRUE)>>]

LoftConns ==
  <<Conn(Http, DotIp(192, 168, 16, 2), DotIp(192, 168, 16, 2), 32400, TRUE),
    Conn(Http, DotIp(192, 168, 1, 50), DotIp(192, 168, 1, 50), 32400, TRUE),
    Conn(Http, DotIp(192, 168, 1, 60), DotIp(192, 168, 1, 60), 32400, TRUE)>>

\* one server advertising a loopback address, a link-local plex.direct host,
\* a bare address over TLS, and one usable connection
MixedConns ==
  <<Conn(Http, DotIp(127, 0, 0, 1), DotIp(127, 0, 0, 1), 32400, TRUE),
    Conn(Https, DashHost(169, 254, 3, 4), DotIp(169, 254, 3, 4), 32400, TRUE),
    Conn(Https, DotIp(192, 168, 1, 50), DotIp(192, 168, 1, 50), 32400, TRUE),
    Conn(Http, DotIp(192, 168, 1, 50), DotIp(192, 168, 1, 50), 32400, TRUE)>>

\* accounts: none or one server with any connection list, and a player and
\* a second server next to a server with at most one connection
Accounts ==
  {<<>>, <<Player>>, <<ServerA(MixedConns)>>}
  \cup {<<ServerA(cl)>> : cl \in ConnLists}
  \cup {<<Player, ServerB(LoftConns), ServerA(cl)>> : cl \in {<<>>} \cup {<<c>> : c \in ConnPool}}

\* the account token plex.tv hands out once the PIN is authorised
AccountToken == <<"a", "c", "c", "t", "4", "2">>
----------------------------------------------------------------------------
(* Stream URLs and the redaction of their token.                           *)

\* s.indexOf(sub) for a string sub: 0-based, -1 when absent
IndexOfSub(s, sub) ==
  IF Includes(s, sub)
  THEN CHOOSE i \in 0..(Len(s) - Len(sub)) :
         /\ SubSeq(s, i + 1, i + Len(sub)) = sub
         /\ \A j \in 0..(i - 1) : SubSeq(s, j + 1, j + Len(sub)) # sub
  ELSE -1

\* the characters encodeURIComponent leaves alone, besides letters and digits
UnreservedMarks == {"-", "_", ".", "!", "~", "*", "'", "(", ")"}

IsUnreserved(c) ==
  \/ IsDigit(c)
  \/ \E k \in 1..26 : LowerLetters[k] = c \/ UpperLetters[k] = c
  \/ c \in UnreservedMarks

\* the reserved characters of the model's alphabet and their escapes
PctChars == <<"/", "?", "&", "=", ":", "%", " ", "|", "@", "+">>

PctCodes == <<<<"%", "2", "F">>, <<"%", "3", "F">>, <<"%", "2", "6">>, <<"%", "3", "D">>, <<"%", "3", "A">>, <<"%", "2", "5">>, <<"%", "2", "0">>, <<"%", "7", "C">>, <<"%", "4", "0">>, <<"%", "2", "B">>>>

RECURSIVE encodeURIComponent(_)
encodeURIComponent(s) ==
  IF s = <<>> THEN <<>>
  ELSE (IF IsUnreserved(Head(s)) THEN <<Head(s)>>
        ELSE PctCodes[CHOOSE k \in 1..Len(PctChars) : PctChars[k] = Head(s)])
       \o encodeURIComponent(Tail(s))

RECURSIVE decodeURIComponent(_)
\* Null stands for the URIError of a malformed escape
decodeURIComponent(s) ==
  IF s = <<>> THEN <<>>
  ELSE IF Head(s) # "%"
    THEN LET rest == decodeURIComponent(Tail(s))
         IN IF rest = Null THEN Null ELSE <<Head(s)>> \o rest
  ELSE IF Len(s) >= 3 /\ \E k \in 1..Len(PctCodes) : PctCodes[k] = SubSeq(s, 1, 3)
    THEN LET rest == decodeURIComponent(SubSeq(s, 4, Len(s)))
         IN IF rest = Null THEN Null
            ELSE <<PctChars[CHOOSE k \in 1..Len(PctCodes) : PctCodes[k] = SubSeq(s, 1, 3)]>> \o rest
  ELSE Null

RECURSIVE ReplaceSlashes(_)
\* the segment older versions of the plugin emitted: every "/" written as "__"
ReplaceSlashes(s) ==
  IF s = <<>> THEN <<>>
  ELSE (IF Head(s) = "/" THEN <<"_", "_">> ELSE <<Head(s)>>) \o ReplaceSlashes(Tail(s))

encodePathSegmentLegacy(key) == ReplaceSlashes(key)

encodePathSegment(key) == encodeURIComponent(key)

RECURSIVE ReplaceUnderscores(_)
\* encoded.replace(/__/g, "/")
ReplaceUnderscores(s) ==
  IF Len(s) >= 2 /\ s[1] = "_" /\ s[2] = "_" THEN <<"/">> \o ReplaceUnderscores(SubSeq(s, 3, Len(s)))
  ELSE IF s = <<>> THEN <<>>
  ELSE <<Head(s)>> \o ReplaceUnderscores(Tail(s))

decodePathSegmentPercentOnly(encoded) == decodeURIComponent(encoded)

decodePathSegment(encoded) ==
  IF StartsWith(encoded, <<"%">>) THEN decodeURIComponent(encoded)
  ELSE ReplaceUnderscores(encoded)

XPlexTokenName == <<"X", "-", "P", "l", "e", "x", "-", "T", "o", "k", "e", "n">>

XPlexToken == <<"X", "-", "P", "l", "e", "x", "-", "T", "o", "k", "e", "n", "=">>

\* U+2588, the block the redaction marker is made of
Block == "u2588"

Mask == <<Block, Block, Block, Block, Block, Block, Block, Block>>

\* stream-resolver: buildStreamUrl without transcoding, i.e. buildDirectUrl
buildStreamUrl(connection, trackKey) ==
  (IF connection.https THEN Https ELSE Http) \o <<":", "/", "/">> \o connection.host
  \o <<":">> \o ToStr(connection.port) \o trackKey
  \o (IF IndexOf(trackKey, "?") >= 0 THEN <<"&">> ELSE <<"?">>)
  \o XPlexToken \o encodeURIComponent(connection.token)

TrackPrefix == <<"p", "l", "e", "x", "/", "t", "r", "a", "c", "k", "/">>

StreamInfix == <<"/", "s", "t", "r", "e", "a", "m", "/">>

LegacyPrefix == <<"p", "l", "e", "x", "/", "s", "t", "r", "e", "a", "m", "/">>

\* whether resolveStreamUrl(uri) goes through requireService()
NeedsService(u) ==
  \/ StartsWith(u, TrackPrefix) /\ IndexOfSub(u, StreamInfix) # -1
  \/ StartsWith(u, LegacyPrefix)

\* resolveStreamUrl(uri) with the service's connection
resolveStreamUrl(connection, u) ==
  IF StartsWith(u, TrackPrefix) /\ IndexOfSub(u, StreamInfix) # -1
  THEN buildStreamUrl(connection,
         decodePathSegment(Slice(u, IndexOfSub(u, StreamInfix) + Len(StreamInfix))))
  ELSE IF StartsWith(u, LegacyPrefix)
  THEN buildStreamUrl(connection, decodePathSegment(Slice(u, Len(LegacyPrefix))))
  ELSE u

\* the number of leading characters of s other than '&'
ValueRun(s) ==
  CHOOSE n \in 0..Len(s) :
    /\ \A i \in 1..n : s[i] # "&"
    /\ (n < Len(s) => s[n + 1] = "&")

\* the 0-based positions where /X-Plex-Token=[^&]+/ matches
MaskMatches(u) ==
  {i \in 0..(Len(u) - Len(XPlexToken) - 1) :
     /\ SubSeq(u, i + 1, i + Len(XPlexToken)) = XPlexToken
     /\ u[i + Len(XPlexToken) + 1] # "&"}

\* the wrapper's rewrite of state.uri:
\* uri.includes("X-Plex-Token") ? uri.replace(/X-Plex-Token=[^&]+/, "X-Plex-Token=" + the marker) : uri
MaskUri(u) ==
  IF ~Includes(u, XPlexTokenName) \/ MaskMatches(u) = {} THEN u
  ELSE LET i == CHOOSE m \in MaskMatches(u) : \A k \in MaskMatches(u) : m <= k
           from == i + Len(XPlexToken)
       IN SubSeq(u, 1, from) \o Mask \o Slice(u, from + ValueRun(Slice(u, from)))

RECURSIVE PushThrough(_, _)
\* what reaches the host's own servicePushState through `wrappers` nested wrappers
PushThrough(wrappers, state) ==
  IF wrappers = 0 THEN state
  ELSE PushThrough(wrappers - 1, [state EXCEPT !.uri = MaskUri(state.uri)])
----------------------------------------------------------------------------
(* The resting state of the login flow and of the plugin controller.       *)

PinId == <<"8", "8", "1", "2">>

PinCode == <<"k", "3", "x", "q">>

\* what a failed plex.tv request rejects with: the message of the Error
\* from the response handler, or of the error Node reports on the request
PlexTvErrors ==
  { <<"Failed to parse Plex.tv response">>,
    <<"Plex.tv API error: HTTP ", "4", "0", "1", " body: ", "{", "}">>,
    <<"getaddrinfo ENOTFOUND plex.tv">> }

\* req.on('error', reject): the failures of the network below the request
TransportErrors == { <<"getaddrinfo ENOTFOUND plex.tv">> }

\* commandRouter.pushToastMessage(type, 'Plex', message)
Toast(type, message) == [type |-> type, title |-> "Plex", message |-> message]

\* the .catch of startPlexLogin and checkPlexLogin: the error is logged and
\* shown, and the promise handed to the caller resolves
CatchLoginErrorRethrows(logPrefix, toastPrefix, err) ==
  [log |-> << logPrefix \o <<"Error: ">> \o err >>, toast |-> <<>>, promise |-> "rejected"]

CatchLoginError(logPrefix, toastPrefix, err) ==
  [log |-> << logPrefix \o <<"Error: ">> \o err >>,
   toast |-> <<Toast("error", toastPrefix \o err)>>,
   promise |-> "resolved"]

\* what checkPlexLogin tells the user once the resources are listed
DiscoveryToastAlwaysFound(servers) ==
  Toast("success", <<"Found ">> \o ToStr(Len(ConnectionOptions(servers)))
                   \o <<" connection(s) ", EmDash, " select one and click Apply Server">>)

DiscoveryToast(servers) ==
  IF servers = <<>>
  THEN Toast("warning", <<"No Plex Media Servers found on your account">>)
  ELSE Toast("success", <<"Found ">> \o ToStr(Len(ConnectionOptions(servers)))
                        \o <<" connection(s) ", EmDash, " select one and click Apply Server">>)

NoLogin == <<>>

\* index.js: self._plexLoginState = { pinId, clientId, authUrl, servers: [] }
FreshLogin ==
  <<[pinId |-> PinId, authToken |-> <<>>, servers |-> <<>>, connectionOptions |-> <<>>]>>

LoginIdle ==
  /\ resources = <<>>
  /\ pinAuthorized = FALSE
  /\ plexLoginState = NoLogin
  /\ loginPc = "idle"
  /\ loginPromise = "none"

\* onVolumioStart with an empty config file: '', 32400, '', false
DefaultConfig == [host |-> <<>>, port |-> 32400, token |-> <<>>, https |-> FALSE]

NoCall == [pc |-> "idle", client |-> <<>>]

PluginIdle ==
  /\ config = DefaultConfig
  /\ adapter = [plexService |-> <<DefaultConfig>>, originalServicePushState |-> <<>>]
  /\ started = FALSE
  /\ servicePushState = 0
  /\ call = NoCall
  /\ wire = <<>>
  /\ mpdQueue = <<>>
  /\ surface = <<>>
  /\ log = <<>>
  /\ toast = <<>>

HandleBrowseLogLine(u) == <<"[Plex] handleBrowseUri: ">> \o u

----------------------------------------------------------------------------
(* Browse navigation: the state machine of a client following tokens.      *)

\* Section keys of the i-th library the server may hold.
LibId(i) == ToStr(6 * i - 5)

\* Catalogs: every sequence of at most MaxLibs libraries, in section order,
\* each of 0..MaxItems items.
Catalogs ==
  UNION {[1..k -> 0..MaxItems] : k \in 0..MaxLibs}

CatalogOf(sizes) == [i \in 1..Len(sizes) |-> [id |-> LibId(i), size |-> sizes[i]]]

PageSizes == (1..MaxPageSize) \cup {DEFAULT_PAGE_SIZE}

BrowseIdle ==
  /\ libraries = <<>>
  /\ pageSize = DEFAULT_PAGE_SIZE
  /\ uri = PlexRoot
  /\ page = browseRoot

GatewayIdle ==
  /\ opCall = <<>>
  /\ opResult = <<>>
  /\ gwPhase = "idle"
  /\ gwEvents = <<>>
  /\ gwSettled = <<>>
  /\ gwSent = <<>>

SegmentIdle ==
  /\ sgKey = <<>>
  /\ sgEmitted = <<>>
  /\ sgDecoded = <<>>

ShuffleIdle ==
  /\ shRoute = "album"
  /\ shInput = <<>>
  /\ shArray = <<>>
  /\ shI = 0
  /\ shChoices = <<>>
  /\ shPage = <<>>
  /\ shEarlier = <<>>

PlaylistIdle ==
  /\ plKey = <<>>
  /\ plSize = 0
  /\ plOptions = [pageSize |-> DEFAULT_PAGE_SIZE, shuffleEnabled |-> FALSE]
  /\ plUri = <<>>
  /\ plPage = <<>>

UrlIdle ==
  /\ urInput = <<>>
  /\ urUrl = <<>>

PlaybackIdle ==
  /\ paInput = <<>>
  /\ paPc = "idle"
  /\ paSent = <<>>
  /\ paConsume = <<>>
  /\ paResult = <<>>

ManagerIdle ==
  /\ pmTracks = <<>>
  /\ pmPosition = -1
  /\ pmShuffle = FALSE
  /\ pmRepeat = "off"
  /\ pmShuffleOrder = <<>>
  /\ pmLast = [op |-> "none", arg |-> 0]
  /\ pmWalk = [on |-> FALSE, seen |-> <<>>, done |-> FALSE]
  /\ pmSnapshot = <<>>

ControllerIdle ==
  /\ ctlState = "stopped"
  /\ ctlPositionMs = 0
  /\ ctlCurrentTrack = "null"
  /\ ctlEmitted = <<>>
  /\ ctlLast = "none"

WalkIdle ==
  /\ wkOn = FALSE
  /\ wkPages = <<>>

LoginsIdle ==
  /\ lsObjects = <<>>
  /\ lsCurrent = 0
  /\ lsCalls = <<>>
  /\ lsPolls = <<>>
  /\ lsSignedIn = {}

UnitIdle == SegmentIdle /\ ShuffleIdle /\ PlaylistIdle /\ UrlIdle /\ PlaybackIdle /\ ManagerIdle /\ ControllerIdle /\ WalkIdle /\ LoginsIdle

ClassifyIdle ==
  /\ clHost = <<>>
  /\ clPeer = <<>>
  /\ clNoisy = <<>>
  /\ clScore = <<>>

TokenIdle ==
  /\ tkCursor = [route |-> "artists", sort |-> Null, libraryKey |-> Null, offset |-> 0]
  /\ tkToken = Null
  /\ tkDecoded = <<>>

BrowseInit ==
  /\ TokenIdle
  /\ LoginIdle
  /\ PluginIdle
  /\ ClassifyIdle
  /\ GatewayIdle
  /\ UnitIdle
  /\ libraries \in {CatalogOf(sz) : sz \in Catalogs}
  /\ pageSize \in PageSizes
  /\ uri = PlexRoot
  /\ page = handleBrowseUri(PlexRoot, libraries, pageSize)

Submit(u) ==
  /\ uri' = u
  /\ page' = handleBrowseUri(u, libraries, pageSize)
  /\ log' = <<HandleBrowseLogLine(u)>>
  /\ UNCHANGED <<libraries, pageSize>>
  /\ UNCHANGED <<tokenVars, classifyVars, gatewayVars, unitVars, loginVars, pluginVars>>
  /\ toast' = <<>>

\* The client opens Artists or Albums from the root menu.
OpenRoute == \E route \in Routes : Submit(RouteUri(route))

\* The client follows the page's "Load more..." item.
FollowMore == page.more # Null /\ Submit(page.more)

\* The client follows the page's "Previous page" item.
FollowPrev == page.prev # Null /\ Submit(page.prev)

\* The client picks an entry of the page's "Sort by" list.
FollowSort ==
  \E i \in 1..MaxSortChoice : i <= Len(page.sortUris) /\ Submit(page.sortUris[i])

\* The client re-submits a token it kept from an earlier session: any cursor
\* the plugin can have emitted, over a catalog that may have changed since.
FollowBookmark ==
  \E route \in Routes, i \in 1..MaxLibs, o \in 0..MaxItems :
    Submit(CursorUri(RouteUri(route), LibId(i), o))

\* The client goes back to the root menu.
BackToRoot == uri # PlexRoot /\ Submit(PlexRoot)

BrowseNext == OpenRoute \/ FollowMore \/ FollowPrev \/ FollowSort \/ FollowBookmark \/ BackToRoot

SpecBrowse == BrowseInit /\ [][BrowseNext]_vars

----------------------------------------------------------------------------
(* Claims about the "Load more..." and "Previous page" tokens.             *)

\* The token tok is a token of the given route.
OnRoute(tok, route) ==
  MatchesCursorRoute(tok, RouteUri(route)) \/ MatchesSortRoute(tok, RouteUri(route))

\* The token tok decodes to the cursor {libraryKey, offset} of the given route.
PointsAt(tok, route, libraryKey, offset) ==
  /\ tok # Null
  /\ OnRoute(tok, route)
  /\ parsePaginationUri(tok).libraryKey = libraryKey
  /\ parsePaginationUri(tok).offset = offset

\* The page's collection is exhausted: offset + items returned >= total size.
Exhausted == page.offset + page.count >= page.totalSize

\* 1-based position of the page's collection in the catalog (0 when absent).
PagePos == FindIndex(libraries, page.libraryKey) + 1

\* C1: on an artists or albums page fetched at cursor {K, o} that returns n
\* items of T, the "load more" token decodes to {K, o + n} while o + n < T,
\* and to {next collection, 0} once K is exhausted and a collection follows K
\* in catalog order.
C1_LoadMoreRollsOver ==
  page.status = "ok" =>
    /\ (~Exhausted =>
          PointsAt(page.more, page.route, page.libraryKey, page.offset + page.count))
    /\ (Exhausted /\ PagePos >= 1 /\ PagePos < Len(libraries) =>
          PointsAt(page.more, page.route, libraries[PagePos + 1].id, 0))

\* C1 witness: collection A with totalSize 2 and pageSize 100 followed by B;
\* the page at offset 0 of A carries a "load more" token for B at offset 0.
C1_Witness ==
  /\ Len(libraries) = 2 /\ libraries[1].size = 2 /\ pageSize = DEFAULT_PAGE_SIZE
  /\ page.status = "ok" /\ page.libraryKey = libraries[1].id /\ page.offset = 0
  /\ page.count = 2
  /\ page.more = CursorUri(ArtistsUri, libraries[2].id, 0)

\* C2 as stated: no "load more" link once the current collection and all
\* subsequent collections in catalog order are exhausted (hold no further
\* item to show).
C2_NoLinkOnceAllExhausted ==
  (/\ page.status = "ok"
   /\ Exhausted
   /\ \A j \in (PagePos + 1)..Len(libraries) : libraries[j].size = 0)
  => page.more = Null

\* C2 as amended: no "load more" link on a page whose collection is exhausted
\* and is the last collection in catalog order.
C2_NoLinkAfterLastCollection ==
  (page.status = "ok" /\ Exhausted /\ PagePos = Len(libraries)) => page.more = Null

\* C2 witness: the last page of the last of two libraries, reached by rollover.
C2_Witness ==
  /\ Len(libraries) = 2 /\ page.status = "ok" /\ PagePos = 2
  /\ libraries[2].size > 0 /\ Exhausted /\ page.offset > 0
  /\ page.more = Null

\* The token tok embeds the sort directive verbatim in its route segment.
CarriesSort(tok, route, sort) ==
  \/ tok = RouteUri(route) \o <<"~">> \o sort
  \/ StartsWith(tok, RouteUri(route) \o <<"~">> \o sort \o <<"@">>)

----------------------------------------------------------------------------
(* The token round trip: encode a structured cursor, decode the token.     *)

\* Section keys are the decimal keys of the server's library sections.
TokenKeys == {LibId(i) : i \in 1..(MaxLibs + 1)}

TokenOffsets == (0..MaxItems) \cup {10, 99, 100, 140, 1000}

TokenSorts(route) ==
  {Null} \cup {SortOptions(route)[i] : i \in 1..Len(SortOptions(route))}

TokenInit ==
  /\ BrowseIdle
  /\ LoginIdle
  /\ PluginIdle
  /\ ClassifyIdle
  /\ GatewayIdle
  /\ UnitIdle
  /\ tkCursor \in {[route |-> r, sort |-> s, libraryKey |-> k, offset |-> o] :
                     r \in Routes, s \in TokenSorts("artists") \cup TokenSorts("albums"),
                     k \in TokenKeys, o \in TokenOffsets}
  /\ tkToken = Null
  /\ tkDecoded = <<>>

\* The handler emits the token of the cursor.
EncodeToken ==
  /\ tkToken = Null
  /\ tkToken' = CursorUri(BaseUri(tkCursor.route, tkCursor.sort), tkCursor.libraryKey, tkCursor.offset)
  /\ UNCHANGED <<tkCursor, tkDecoded>>
  /\ UNCHANGED <<browseVars, loginVars, pluginVars, classifyVars, gatewayVars, unitVars, log>>
  /\ toast' = <<>>

\* The client re-submits the token and the adapter decodes it.
DecodeToken ==
  /\ tkToken # Null
  /\ tkDecoded = <<>>
  /\ tkDecoded' = <<parsePaginationUri(tkToken)>>
  /\ UNCHANGED <<tkCursor, tkToken>>
  /\ UNCHANGED <<browseVars, loginVars, pluginVars, classifyVars, gatewayVars, unitVars, log>>
  /\ toast' = <<>>

TokenNext == EncodeToken \/ DecodeToken

SpecToken == TokenInit /\ [][TokenNext]_vars

----------------------------------------------------------------------------
(* The PIN login flow of the settings page: startPlexLogin, checkPlexLogin. *)
(* A log line is a sequence whose elements are fixed phrases of the code    *)
(* (one element each) and the characters of the values printed into them.   *)

\* startPlexLogin up to its request to plex.tv
StartPlexLogin ==
  /\ loginPc = "idle"
  /\ loginPc' = "creating"
  /\ loginPromise' = "pending"
  /\ log' = << <<"[Plex] Starting Plex login flow">> >>
  /\ toast' = <<>>
  /\ UNCHANGED <<resources, pinAuthorized, plexLoginState>>
  /\ UNCHANGED <<browseVars, tokenVars, classifyVars, gatewayVars, unitVars, pluginVars>>

\* ... and its continuation when the PIN arrives
PinCreated ==
  /\ loginPc = "creating"
  /\ plexLoginState' = FreshLogin
  /\ pinAuthorized' = FALSE
  /\ loginPc' = "idle"
  /\ loginPromise' = "resolved"
  /\ log' = << <<"[Plex] PIN response: id=">> \o PinId \o <<" code=">> \o PinCode
                 \o <<" expiresAt=">> \o <<"2", "0", "2", "6">>,
               <<"[Plex] PIN created: ">> \o PinCode >>
  /\ toast' = <<Toast("info", <<"Open the Auth URL shown below in a browser, then click Check Login Status">>)>>
  /\ UNCHANGED resources
  /\ UNCHANGED <<browseVars, tokenVars, classifyVars, gatewayVars, unitVars, pluginVars>>

\* ... or when the request fails
PinCreateFailed ==
  /\ loginPc = "creating"
  /\ \E err \in PlexTvErrors :
       LET caught == CatchLoginError(<<"[Plex] startPlexLogin failed: ">>, <<"Login failed: ">>, err)
       IN /\ log' = caught.log
          /\ toast' = caught.toast
          /\ loginPromise' = caught.promise
  /\ loginPc' = "idle"
  /\ UNCHANGED <<resources, pinAuthorized, plexLoginState>>
  /\ UNCHANGED <<browseVars, tokenVars, classifyVars, gatewayVars, unitVars, pluginVars>>

\* the user signs in at the auth URL
UserAuthorizesPin ==
  /\ plexLoginState # NoLogin
  /\ ~pinAuthorized
  /\ pinAuthorized' = TRUE
  /\ UNCHANGED <<resources, plexLoginState, loginPc, loginPromise, log, toast>>
  /\ UNCHANGED <<browseVars, tokenVars, classifyVars, gatewayVars, unitVars, pluginVars>>

\* checkPlexLogin up to its PIN poll; without a PIN it only warns
CheckPlexLogin ==
  /\ loginPc = "idle"
  /\ loginPc' = IF plexLoginState = NoLogin THEN "idle" ELSE "polling"
  /\ loginPromise' = IF plexLoginState = NoLogin THEN "resolved" ELSE "pending"
  /\ log' = <<>>
  /\ toast' = IF plexLoginState = NoLogin
              THEN <<Toast("warning", <<"Click \"Login with Plex\" first">>)>>
              ELSE <<>>
  /\ UNCHANGED <<resources, pinAuthorized, plexLoginState>>
  /\ UNCHANGED <<browseVars, tokenVars, classifyVars, gatewayVars, unitVars, pluginVars>>

\* the PIN poll answers: without an auth token the check ends here
PinPolled ==
  /\ loginPc = "polling"
  /\ loginPc' = IF pinAuthorized THEN "listing" ELSE "idle"
  /\ loginPromise' = IF pinAuthorized THEN "pending" ELSE "resolved"
  /\ log' = << <<"[Plex] PIN poll: id=">> \o PinId \o <<" authToken=">>
                 \o <<IF pinAuthorized THEN "present" ELSE "null">>
                 \o <<" keys=", "id,code,authToken">> >>
  /\ toast' = IF pinAuthorized THEN <<>>
              ELSE <<Toast("info", <<"Not yet authenticated ", EmDash,
                                     " open the Auth URL and sign in first">>)>>
  /\ UNCHANGED <<resources, pinAuthorized, plexLoginState>>
  /\ UNCHANGED <<browseVars, tokenVars, classifyVars, gatewayVars, unitVars, pluginVars>>

\* the resources answer: filter, rank, deduplicate, fall back, store
ResourcesListed ==
  /\ loginPc = "listing"
  /\ LET servers == SelectSeq(resources, ProvidesServer)
     IN /\ plexLoginState' =
             IF servers = <<>> THEN plexLoginState
             ELSE <<[plexLoginState[1] EXCEPT !.authToken = AccountToken,
                                             !.servers = servers,
                                             !.connectionOptions = ConnectionOptions(servers)]>>
        /\ toast' = <<DiscoveryToast(servers)>>
  /\ loginPc' = "idle"
  /\ loginPromise' = "resolved"
  /\ log' = <<>>
  /\ UNCHANGED <<resources, pinAuthorized>>
  /\ UNCHANGED <<browseVars, tokenVars, classifyVars, gatewayVars, unitVars, pluginVars>>

\* either request of the check fails
CheckFailed ==
  /\ loginPc \in {"polling", "listing"}
  /\ \E err \in PlexTvErrors :
       LET caught == CatchLoginError(<<"[Plex] checkPlexLogin failed: ">>, <<"Check failed: ">>, err)
       IN /\ log' = caught.log
          /\ toast' = caught.toast
          /\ loginPromise' = caught.promise
  /\ loginPc' = "idle"
  /\ UNCHANGED <<resources, pinAuthorized, plexLoginState>>
  /\ UNCHANGED <<browseVars, tokenVars, classifyVars, gatewayVars, unitVars, pluginVars>>

LoginNext ==
  \/ StartPlexLogin
  \/ PinCreated
  \/ PinCreateFailed
  \/ UserAuthorizesPin
  \/ CheckPlexLogin
  \/ PinPolled
  \/ ResourcesListed
  \/ CheckFailed
----------------------------------------------------------------------------
(* The plugin controller: settings, the active connection, the adapter,    *)
(* the state-mask hook, browse requests and playback.                      *)
(* A connection record is [host, port, token, https].                      *)

RECURSIVE Split(_, _)
\* s.split(sep) for a one-character separator
Split(s, sep) ==
  IF IndexOf(s, sep) = -1 THEN <<s>>
  ELSE <<SliceTo(s, 0, IndexOf(s, sep))>> \o Split(Slice(s, IndexOf(s, sep) + 1), sep)

\* parts[k] of a split, 0-based; <<>> stands for undefined
Part(parts, k) == IF k + 1 <= Len(parts) THEN parts[k + 1] ELSE <<>>

\* Number(s) for a string: empty is 0, decimal digits are their value, the rest NaN
NumberOf(s) ==
  IF s = <<>> THEN [nan |-> FALSE, val |-> 0]
  ELSE IF \A i \in 1..Len(s) : IsDigit(s[i]) THEN [nan |-> FALSE, val |-> DecVal(s)]
  ELSE [nan |-> TRUE, val |-> 0]

\* what the settings page submits to saveConfig
SettingsForms ==
  { [host |-> DotIp(192, 168, 1, 50), port |-> <<"3", "2", "4", "0", "0">>, token |-> <<"S", "E", "C", "R", "E", "T", "1", "2", "3">>, https |-> FALSE],
    [host |-> <<"n", "a", "s", ".", "e", "x", "a", "m", "p", "l", "e", ".", "o", "r", "g">>, port |-> <<>>, token |-> <<"p", "&", "w", "=", "1">>, https |-> TRUE] }

\* queue items as trackToQueueItem builds them, and one of an older version
Tracks ==
  { [name |-> <<"S", "o", "n", "g">>,
     uri |-> TrackPrefix \o <<"9">> \o StreamInfix
             \o encodePathSegment(<<"/", "l", "i", "b", "r", "a", "r", "y", "/", "p", "a", "r", "t", "s", "/", "7", "/", "f", "i", "l", "e", ".", "f", "l", "a", "c">>)],
    [name |-> <<"O", "l", "d">>,
     uri |-> LegacyPrefix \o <<"_", "_", "l", "i", "b", "r", "a", "r", "y", "_", "_", "p", "a", "r", "t", "s", "_", "_", "8", "_", "_", "b", ".", "m", "p", "3", "?", "d", "l", "=", "1">>] }

\* what a failed MPD command rejects with
MpdErrors ==
  { <<"Error: ", "ACK [50@0] {addid} No such song">>,
    <<"Error: ", "MPD not ready">> }

\* the accounts the controller is exercised with
DemoAccounts ==
  { <<ServerA(<<Conn(Https, DashHost(10, 0, 0, 5), DotIp(10, 0, 0, 5), 32400, TRUE),
                Conn(Http, DotIp(192, 168, 1, 50), DotIp(192, 168, 1, 50), 32400, TRUE)>>)>> }

JsonString(s) == <<"\"">> \o s \o <<"\"">>

JsonForm(data, token) ==
  <<"{">> \o JsonString(<<"h", "o", "s", "t">>) \o <<":">> \o JsonString(data.host)
  \o <<",">> \o JsonString(<<"p", "o", "r", "t">>) \o <<":">> \o JsonString(data.port)
  \o <<",">> \o JsonString(<<"t", "o", "k", "e", "n">>) \o <<":">> \o JsonString(token)
  \o <<",">> \o JsonString(<<"h", "t", "t", "p", "s">>) \o <<":">>
  \o (IF data.https THEN <<"t", "r", "u", "e">> ELSE <<"f", "a", "l", "s", "e">>) \o <<"}">>

SaveConfigLogLineUnmasked(data) ==
  <<"[Plex] saveConfig data: ">> \o JsonForm(data, data.token)

\* saveConfig's log line: safeData.token is masked when it is truthy
SaveConfigLogLine(data) ==
  <<"[Plex] saveConfig data: ">>
  \o JsonForm(data, IF data.token # <<>> THEN Mask ELSE data.token)

initAdapterKeepsOldToken(conn) ==
  [plexService |->
     <<[conn EXCEPT !.token = IF adapter.plexService = <<>> THEN conn.token
                              ELSE adapter.plexService[1].token]>>,
   originalServicePushState |-> <<>>]

\* _initAdapter: one fresh record feeds the client, the service and the adapter
initAdapter(conn) ==
  [plexService |-> <<conn>>, originalServicePushState |-> <<>>]

saveConfig(data) ==
  /\ log' = <<SaveConfigLogLine(data)>>
  /\ LET port == NumberOf(data.port)
         conn == [host |-> data.host,
                  port |-> IF port.nan \/ port.val = 0 THEN 32400 ELSE port.val,
                  token |-> data.token,
                  https |-> data.https]
     IN /\ config' = conn
        /\ adapter' = initAdapter(conn)
  /\ toast' = <<Toast("success", <<"Configuration saved">>)>>
  /\ UNCHANGED <<started, servicePushState, call, wire, mpdQueue, surface>>
  /\ UNCHANGED <<browseVars, tokenVars, classifyVars, gatewayVars, unitVars, loginVars>>

SaveConfig == \E data \in SettingsForms : saveConfig(data)

\* what the browse-options page submits to saveBrowseOptions
BrowseOptionForms ==
  { [shuffle |-> TRUE, pageSize |-> <<"5">>],
    [shuffle |-> FALSE, pageSize |-> <<>>] }

\* saveBrowseOptions' log line: the submitted form, as it came
SaveBrowseOptionsLogLine(data) ==
  <<"[Plex] saveBrowseOptions data: ", "{">> \o JsonString(<<"s", "h", "u", "f", "f", "l", "e">>) \o <<":">>
  \o (IF data.shuffle THEN <<"t", "r", "u", "e">> ELSE <<"f", "a", "l", "s", "e">>)
  \o <<",">> \o JsonString(<<"p", "a", "g", "e", "S", "i", "z", "e">>) \o <<":">> \o JsonString(data.pageSize) \o <<"}">>

\* saveBrowseOptions(data): the page size is clamped to 10..1000 and the
\* adapter is built anew around the stored connection
saveBrowseOptions(data) ==
  /\ log' = <<SaveBrowseOptionsLogLine(data)>>
  /\ LET n == NumberOf(data.pageSize)
         size == IF n.nan \/ n.val = 0 THEN 100 ELSE n.val
     IN pageSize' = IF size < 10 THEN 10 ELSE IF size > 1000 THEN 1000 ELSE size
  /\ adapter' = initAdapter(config)
  /\ UNCHANGED <<config, started, servicePushState, call, wire, mpdQueue, surface>>
  /\ UNCHANGED <<libraries, uri, page, tokenVars, classifyVars, gatewayVars, unitVars, loginVars>>
  /\ toast' = <<Toast("success", <<"Options saved">>)>>

SaveBrowseOptions == \E data \in BrowseOptionForms : saveBrowseOptions(data)

\* the values the server picker can submit: an option, or nothing selected
PickerValues ==
  {<<>>} \cup (IF plexLoginState = NoLogin THEN {}
               ELSE {plexLoginState[1].connectionOptions[i].value :
                       i \in 1..Len(plexLoginState[1].connectionOptions)})

\* Mutant: the token is always that of the first server of the list.
applyPlexServerFirstServer(selectedValue) ==
  LET parts == Split(selectedValue, "|")
      serverId == Part(parts, 0)
      host == Part(parts, 1)
      port == NumberOf(Part(parts, 2))
      proto == Part(parts, 3)
      servers == plexLoginState[1].servers
      server == servers[1]
      conn == [host |-> host,
               port |-> port.val,
               token |-> IF server.accessToken # <<>> THEN server.accessToken
                         ELSE plexLoginState[1].authToken,
               https |-> proto = Https]
  IN /\ log' = <<>>
     /\ IF plexLoginState = NoLogin \/ plexLoginState[1].servers = <<>>
        THEN /\ toast' = <<Toast("warning", <<"No servers available ", EmDash, " complete login first">>)>>
             /\ UNCHANGED <<config, adapter>>
        ELSE IF host = <<>> \/ port.nan \/ port.val = 0 \/ proto = <<>>
        THEN /\ toast' = <<Toast("error", <<"No connection selected ", EmDash,
                                            " check login status first">>)>>
             /\ UNCHANGED <<config, adapter>>
        ELSE /\ config' = conn
             /\ adapter' = initAdapter(conn)
             /\ toast' = <<Toast("success", <<"Connected to ">> \o server.name)>>
     /\ UNCHANGED <<started, servicePushState, call, wire, mpdQueue, surface>>
     /\ UNCHANGED <<browseVars, tokenVars, classifyVars, gatewayVars, unitVars, loginVars>>

applyPlexServer(selectedValue) ==
  LET parts == Split(selectedValue, "|")
      serverId == Part(parts, 0)
      host == Part(parts, 1)
      port == NumberOf(Part(parts, 2))
      proto == Part(parts, 3)
      servers == plexLoginState[1].servers
      server == IF \E i \in 1..Len(servers) : servers[i].clientIdentifier = serverId
                THEN servers[CHOOSE i \in 1..Len(servers) :
                               /\ servers[i].clientIdentifier = serverId
                               /\ \A j \in 1..(i - 1) : servers[j].clientIdentifier # serverId]
                ELSE servers[1]
      conn == [host |-> host,
               port |-> port.val,
               token |-> IF server.accessToken # <<>> THEN server.accessToken
                         ELSE plexLoginState[1].authToken,
               https |-> proto = Https]
  IN /\ log' = <<>>
     /\ IF plexLoginState = NoLogin \/ plexLoginState[1].servers = <<>>
        THEN /\ toast' = <<Toast("warning", <<"No servers available ", EmDash, " complete login first">>)>>
             /\ UNCHANGED <<config, adapter>>
        ELSE IF host = <<>> \/ port.nan \/ port.val = 0 \/ proto = <<>>
        THEN /\ toast' = <<Toast("error", <<"No connection selected ", EmDash,
                                            " check login status first">>)>>
             /\ UNCHANGED <<config, adapter>>
        ELSE /\ config' = conn
             /\ adapter' = initAdapter(conn)
             /\ toast' = <<Toast("success", <<"Connected to ">> \o server.name)>>
     /\ UNCHANGED <<started, servicePushState, call, wire, mpdQueue, surface>>
     /\ UNCHANGED <<browseVars, tokenVars, classifyVars, gatewayVars, unitVars, loginVars>>

ApplyPlexServer == \E v \in PickerValues : applyPlexServer(v)

\* onStart: adapter.onStart installs the state-mask hook unless this adapter
\* already holds an original
OnStart ==
  /\ ~started
  /\ adapter.originalServicePushState # <<>> \/ servicePushState < MaxWrappers
  /\ started' = TRUE
  /\ log' = << <<"[Plex] onStart">> >>
  /\ IF adapter.originalServicePushState # <<>>
     THEN UNCHANGED <<adapter, servicePushState>>
     ELSE /\ adapter' = [adapter EXCEPT !.originalServicePushState = <<servicePushState>>]
          /\ servicePushState' = servicePushState + 1
  /\ UNCHANGED <<config, call, wire, mpdQueue, surface>>
  /\ UNCHANGED <<browseVars, tokenVars, classifyVars, gatewayVars, unitVars, loginVars>>
  /\ toast' = <<>>

\* onStop: adapter.onStop puts back the original this adapter holds, if any,
\* and drops the service and the connection
OnStop ==
  /\ started
  /\ started' = FALSE
  /\ log' = << <<"[Plex] onStop">> >>
  /\ servicePushState' = IF adapter.originalServicePushState # <<>>
                         THEN adapter.originalServicePushState[1]
                         ELSE servicePushState
  /\ adapter' = [plexService |-> <<>>, originalServicePushState |-> <<>>]
  /\ UNCHANGED <<config, call, wire, mpdQueue, surface>>
  /\ UNCHANGED <<browseVars, tokenVars, classifyVars, gatewayVars, unitVars, loginVars>>
  /\ toast' = <<>>
\* PlexApiClient.request(path): the fields are read off the client in one turn
Request(client, path) ==
  [hostname |-> client.host, port |-> client.port, https |-> client.https,
   token |-> client.token, path |-> path]

\* handleBrowseUri up to its first await: requireService() hands out the
\* service whose client every request of this call goes through; the root
\* page needs no request
BeginBrowse(u) ==
  /\ call.pc = "idle"
  /\ log' = <<HandleBrowseLogLine(u)>>
  /\ IF adapter.plexService = <<>> \/ u = PlexRoot
     THEN /\ call' = NoCall
          /\ wire' = <<>>
     ELSE /\ call' = [pc |-> "libraries", client |-> adapter.plexService]
          /\ wire' = <<Request(adapter.plexService[1], "/library/sections")>>
  /\ UNCHANGED <<config, adapter, started, servicePushState, mpdQueue, surface>>
  /\ UNCHANGED <<browseVars, tokenVars, classifyVars, gatewayVars, unitVars, loginVars>>
  /\ toast' = <<>>

\* getLibraries() answered: the page request follows on the same client
LibrariesArrive ==
  /\ call.pc = "libraries"
  /\ call' = [call EXCEPT !.pc = "page"]
  /\ wire' = Append(wire, Request(call.client[1], "/library/sections/1/all"))
  /\ log' = <<>>
  /\ UNCHANGED <<config, adapter, started, servicePushState, mpdQueue, surface>>
  /\ UNCHANGED <<browseVars, tokenVars, classifyVars, gatewayVars, unitVars, loginVars>>
  /\ toast' = <<>>

\* the page arrived, or either request failed: the call is over
BrowseSettles ==
  /\ call.pc \in {"libraries", "page"}
  /\ call' = NoCall
  /\ wire' = <<>>
  /\ log' = <<>>
  /\ UNCHANGED <<config, adapter, started, servicePushState, mpdQueue, surface>>
  /\ UNCHANGED <<browseVars, tokenVars, classifyVars, gatewayVars, unitVars, loginVars>>
  /\ toast' = <<>>

\* clearAddPlayTrack: the stream URL is resolved first, then handed to MPD
clearAddPlayTrack(track) ==
  /\ log' = << <<"[Plex] clearAddPlayTrack: ">> \o track.name >>
  /\ mpdQueue' = IF NeedsService(track.uri) /\ adapter.plexService = <<>>
                 THEN mpdQueue
                 ELSE <<resolveStreamUrl(adapter.plexService[1], track.uri)>>
  /\ UNCHANGED <<config, adapter, started, servicePushState, call, wire, surface>>
  /\ UNCHANGED <<browseVars, tokenVars, classifyVars, gatewayVars, unitVars, loginVars>>
  /\ toast' = <<>>

ClearAddPlayTrack == \E track \in Tracks : clearAddPlayTrack(track)

\* prefetch: resolveStreamUrl may throw before the try; addid succeeds ...
PrefetchQueued ==
  \E track \in Tracks :
    /\ mpdQueue' = IF NeedsService(track.uri) /\ adapter.plexService = <<>>
                   THEN mpdQueue
                   ELSE <<resolveStreamUrl(adapter.plexService[1], track.uri)>>
    /\ log' = IF NeedsService(track.uri) /\ adapter.plexService = <<>>
              THEN << <<"[Plex] prefetch: ">> \o track.name >>
              ELSE << <<"[Plex] prefetch: ">> \o track.name,
                      <<"[Plex] Prefetched next track: ">> \o track.name >>
    /\ UNCHANGED <<config, adapter, started, servicePushState, call, wire, surface>>
    /\ UNCHANGED <<browseVars, tokenVars, classifyVars, gatewayVars, unitVars, loginVars>>
    /\ toast' = <<>>

\* ... or MPD rejects it
PrefetchFailed ==
  \E track \in Tracks, err \in MpdErrors :
    /\ ~(NeedsService(track.uri) /\ adapter.plexService = <<>>)
    /\ log' = << <<"[Plex] prefetch: ">> \o track.name,
                 <<"[Plex] Prefetch failed: ">> \o err >>
    /\ UNCHANGED <<config, adapter, started, servicePushState, call, wire,
                   mpdQueue, surface>>
    /\ UNCHANGED <<browseVars, tokenVars, classifyVars, gatewayVars, unitVars, loginVars>>
    /\ toast' = <<>>

\* MPD echoes the stream URL it plays in a state push through
\* commandRouter.servicePushState
MpdStatePush ==
  /\ mpdQueue # <<>>
  /\ surface' = <<PushThrough(servicePushState, [uri |-> mpdQueue[1]])>>
  /\ UNCHANGED <<config, adapter, started, servicePushState, call, wire,
                 mpdQueue, log>>
  /\ UNCHANGED <<browseVars, tokenVars, classifyVars, gatewayVars, unitVars, loginVars>>
  /\ toast' = <<>>

PluginInit ==
  /\ BrowseIdle
  /\ TokenIdle
  /\ PluginIdle
  /\ ClassifyIdle
  /\ GatewayIdle
  /\ UnitIdle
  /\ resources \in DemoAccounts
  /\ pinAuthorized = FALSE
  /\ plexLoginState = NoLogin
  /\ loginPc = "idle"
  /\ loginPromise = "none"

\* the login state a completed checkPlexLogin leaves behind for the account
LoggedIn(account) ==
  <<[pinId |-> PinId,
     authToken |-> AccountToken,
     servers |-> SelectSeq(account, ProvidesServer),
     connectionOptions |-> ConnectionOptions(SelectSeq(account, ProvidesServer))]>>

\* the controller before any login, or with the login completed
ConnInit ==
  /\ BrowseIdle
  /\ TokenIdle
  /\ PluginIdle
  /\ ClassifyIdle
  /\ GatewayIdle
  /\ UnitIdle
  /\ resources \in DemoAccounts
  /\ \/ pinAuthorized = FALSE /\ plexLoginState = NoLogin
     \/ pinAuthorized = TRUE /\ plexLoginState = LoggedIn(resources)
  /\ loginPc = "idle"
  /\ loginPromise = "none"

\* the active connection under settings changes, with browse calls in flight
ConnNext ==
  \/ SaveConfig
  \/ ApplyPlexServer
  \/ OnStart
  \/ OnStop
  \/ BeginBrowse(PlexRoot)
  \/ BeginBrowse(ArtistsUri)
  \/ LibrariesArrive
  \/ BrowseSettles

SpecConn == ConnInit /\ [][ConnNext]_vars

\* playback states on their way to the host, across the plugin's lifecycle;
\* the host hands tracks to the plugin only while it is started, MPD echoes
\* what it holds at any time
MaskNext ==
  \/ SaveConfig
  \/ OnStart
  \/ OnStop
  \/ started /\ ClearAddPlayTrack
  \/ started /\ PrefetchQueued
  \/ MpdStatePush

SpecMask == PluginInit /\ [][MaskNext]_vars

\* everything that writes to the logger while tokens come and go
LogNext ==
  \/ SaveConfig
  \/ SaveBrowseOptions
  \/ ApplyPlexServer
  \/ LoginNext
  \/ BeginBrowse(PlexRoot)
  \/ ClearAddPlayTrack
  \/ PrefetchQueued
  \/ PrefetchFailed

SpecLog == PluginInit /\ [][LogNext]_vars

DiscoveryInit ==
  /\ BrowseIdle
  /\ TokenIdle
  /\ PluginIdle
  /\ ClassifyIdle
  /\ GatewayIdle
  /\ UnitIdle
  /\ resources \in Accounts
  /\ pinAuthorized = FALSE
  /\ plexLoginState = NoLogin
  /\ loginPc = "idle"
  /\ loginPromise = "none"

SpecDiscovery == DiscoveryInit /\ [][LoginNext]_vars

----------------------------------------------------------------------------
(* Claims about the active connection, redaction and discovery.            *)

\* the connection record a request was issued with
ConnOf(r) == [host |-> r.hostname, port |-> r.port, token |-> r.token, https |-> r.https]

\* C5: replacing the active connection is atomic for requests. Every request
\* of a browse call carries one complete {host, port, token, TLS} record: the
\* first request carries the record that is the active connection when the
\* call begins, and every later request of the call carries that same record,
\* whatever was applied in between; no request mixes fields of two records.
C5_RequestsCarryOneRecord ==
  /\ [](\A i \in 1..Len(wire) : ConnOf(wire[i]) = ConnOf(wire[1]))
  /\ [][call.pc = "idle" /\ call'.pc # "idle" => ConnOf(wire'[1]) = config]_vars

\* a call with both requests out, begun under a connection that has been
\* replaced since in host and in token
C5_Witness ==
  /\ call.pc = "page"
  /\ Len(wire) = 2
  /\ wire[2].hostname # config.host
  /\ wire[2].token # config.token
  /\ wire[2].token # <<>>
  /\ config.token # <<>>

\* the values of the X-Plex-Token parameters of a URL
TokenValues(u) ==
  {SliceTo(u, i + Len(XPlexToken), i + Len(XPlexToken) + ValueRun(Slice(u, i + Len(XPlexToken)))) :
     i \in {j \in 0..(Len(u) - Len(XPlexToken)) :
              SubSeq(u, j + 1, j + Len(XPlexToken)) = XPlexToken}}

\* C6: every playback state that reaches the host's state surface with a URL
\* carrying the token parameter has the token's value replaced by the marker
\* (a parameter without a value has nothing to replace).
C6_SurfaceTokenMasked ==
  surface # <<>> => TokenValues(surface[1].uri) \subseteq {Mask, <<>>}

\* a state reached the host with its token masked by the hook
C6_Witness ==
  /\ surface # <<>>
  /\ servicePushState > 0
  /\ mpdQueue # <<>>
  /\ TokenValues(mpdQueue[1]) # {Mask}
  /\ TokenValues(surface[1].uri) = {Mask}

\* the tokens that are, were or may become the active connection's token
TokensInPlay ==
  ({config.token, AccountToken}
   \cup {f.token : f \in SettingsForms}
   \cup {resources[k].accessToken : k \in 1..Len(resources)}) \ {<<>>}

\* C7: the active connection's token is never logged unredacted: no line
\* written by saving settings, a login step, browse, playback or a prefetch
\* failure contains the value of a token.
C7_TokenNeverLogged ==
  \A i \in 1..Len(log) : \A t \in TokensInPlay : ~Includes(log[i], t)

\* saveConfig logged the submitted form, its token masked, and made it active
C7_Witness ==
  /\ config.token = <<"S", "E", "C", "R", "E", "T", "1", "2", "3">>
  /\ Len(log) = 1
  /\ log[1][1] = "[Plex] saveConfig data: "
  /\ Includes(log[1], Mask)

\* a completed check: the login state holds the account's servers
Checked == plexLoginState # NoLogin /\ plexLoginState[1].servers # <<>>

\* the candidates of the completed check, in discovery order
Found == CollectCandidates(plexLoginState[1].servers)

SameGroup(a, b) ==
  /\ a.s.clientIdentifier = b.s.clientIdentifier
  /\ a.c.local = b.c.local
  /\ a.protocol = b.protocol

\* candidate i is the one of its group to keep: none of the group scores
\* lower, and none with the same score was discovered earlier
BestOfGroup(cands, i) ==
  \A j \in 1..Len(cands) :
    SameGroup(cands[i], cands[j]) =>
      \/ connSortScore(cands[i].host) < connSortScore(cands[j].host)
      \/ connSortScore(cands[i].host) = connSortScore(cands[j].host) /\ i <= j

\* C8: of the candidates sharing one (server, scope, protocol) key exactly one
\* survives deduplication: the one with the lowest score, the earliest
\* discovered among equals; the options are these survivors and nothing else.
C8_OneSurvivorPerKey ==
  Checked =>
    LET cands == Found
        options == plexLoginState[1].connectionOptions
        best == {i \in 1..Len(cands) : BestOfGroup(cands, i)}
    IN cands # <<>> =>
         /\ \A i \in best :
              Cardinality({k \in 1..Len(options) : options[k] = ToOption(cands[i])}) = 1
         /\ Len(options) = Cardinality(best)

\* a group of two whose better candidate was discovered second, and a group
\* of two equals
C8_Witness ==
  /\ Checked
  /\ \E i, j \in 1..Len(Found) :
       /\ i < j
       /\ SameGroup(Found[i], Found[j])
       /\ connSortScore(Found[j].host) < connSortScore(Found[i].host)
  /\ \E i, j \in 1..Len(Found) :
       /\ i < j
       /\ SameGroup(Found[i], Found[j])
       /\ connSortScore(Found[j].host) = connSortScore(Found[i].host)
       /\ Found[i].host # Found[j].host

\* the plain-HTTP connections of the servers, as <<server, connection>> positions
HttpConnections(servers) ==
  UNION {{<<s, c>> : c \in {n \in 1..Len(servers[s].connections) :
                               servers[s].connections[n].protocol = Http}} :
           s \in 1..Len(servers)}

\* C9: when the discovery response holds an unencrypted connection on a
\* server-providing resource, the option list is not empty; when filtering
\* and deduplication leave nothing, every such connection is offered, at its
\* raw address and port, unfiltered.
C9_FallbackKeepsChoice ==
  (Checked /\ HttpConnections(plexLoginState[1].servers) # {}) =>
    LET servers == plexLoginState[1].servers
        options == plexLoginState[1].connectionOptions
    IN /\ options # <<>>
       /\ Found = <<>> =>
            /\ Len(options) = Cardinality(HttpConnections(servers))
            /\ \A sc \in HttpConnections(servers) :
                 \E k \in 1..Len(options) :
                   options[k].value =
                     servers[sc[1]].clientIdentifier \o <<"|">>
                     \o servers[sc[1]].connections[sc[2]].address \o <<"|">>
                     \o ToStr(servers[sc[1]].connections[sc[2]].port) \o <<"|">> \o Http

\* every candidate was filtered out and the fallback offered a noisy address
C9_Witness ==
  /\ Checked
  /\ Found = <<>>
  /\ plexLoginState[1].connectionOptions # <<>>
  /\ \E sc \in HttpConnections(plexLoginState[1].servers) :
       isNoisyAddress(plexLoginState[1].servers[sc[1]].connections[sc[2]].address)

\* the four numbers of a dotted address
Octets(ip) == [k \in 1..4 |-> ParseInt(Split(ip, ".")[k]).val]

\* docker bridge (172.16/12), loopback and link-local addresses
NoisyOctets(o) ==
  \/ o[1] = 172 /\ o[2] >= 16 /\ o[2] <= 31
  \/ o[1] = 127
  \/ o[1] = 169 /\ o[2] = 254

Synthesized(item) == item.protocol # item.c.protocol

\* C10: every surviving local encrypted candidate whose hostname dash-encodes
\* a.b.c.d comes with a synthesized unencrypted candidate at a.b.c.d for the
\* same server, connection and port; no synthesized candidate sits at a noisy
\* address, so none at 172.17.0.5.
C10_HttpRecovered ==
  Checked =>
    LET cands == Found
    IN /\ \A k \in 1..Len(cands) :
            (cands[k].protocol = Https /\ cands[k].c.local /\ MatchDashIp(cands[k].host).ok) =>
              \E j \in 1..Len(cands) :
                cands[j] = [cands[k] EXCEPT !.host = JoinDots(MatchDashIp(cands[k].host).caps),
                                            !.protocol = Http]
       /\ \A j \in 1..Len(cands) :
            Synthesized(cands[j]) =>
              /\ cands[j].protocol = Http
              /\ ~NoisyOctets(Octets(cands[j].host))
              /\ cands[j].host # DotIp(172, 17, 0, 5)

\* one server advertising both 10-0-0-5 and 172-17-0-5 plex.direct hosts:
\* one synthesized candidate, at 10.0.0.5
C10_Witness ==
  /\ Checked
  /\ \E s \in 1..Len(plexLoginState[1].servers) :
       \E a, b \in 1..Len(plexLoginState[1].servers[s].connections) :
         /\ plexLoginState[1].servers[s].connections[a].uri
              = Https \o <<":", "/", "/">> \o DashHost(10, 0, 0, 5) \o <<":", "3", "2", "4", "0", "0">>
         /\ plexLoginState[1].servers[s].connections[b].uri
              = Https \o <<":", "/", "/">> \o DashHost(172, 17, 0, 5) \o <<":", "3", "2", "4", "0", "0">>
  /\ Cardinality({j \in 1..Len(Found) : Synthesized(Found[j])}) = 1
  /\ \E j \in 1..Len(Found) : Synthesized(Found[j]) /\ Found[j].host = DotIp(10, 0, 0, 5)

\* the four numbers a host stands for: those of a dotted address, or of the
\* dash-separated prefix of a hostname; <<>> when it stands for none
HostOctets(host) ==
  IF IsRawIp(host) THEN Octets(host)
  ELSE IF MatchDashIp(host).ok
    THEN [k \in 1..4 |-> ParseInt(MatchDashIp(host).caps[k]).val]
  ELSE <<>>

NoisyHost(host) == HostOctets(host) # <<>> /\ NoisyOctets(HostOctets(host))

\* C11: when filtering leaves candidates, none of them and no option built
\* from them has a loopback, link-local or bridge-network host, bare or
\* dash-encoded, and none is an https entry on a bare dotted address.
C11_NoNoisyNoBareTls ==
  (Checked /\ Found # <<>>) =>
    LET cands == Found
        options == plexLoginState[1].connectionOptions
    IN /\ \A k \in 1..Len(cands) :
            /\ ~NoisyHost(cands[k].host)
            /\ ~(cands[k].protocol = Https /\ IsRawIp(cands[k].host))
       /\ \A k \in 1..Len(options) :
            LET parts == Split(options[k].value, "|")
            IN /\ ~NoisyHost(Part(parts, 1))
               /\ ~(Part(parts, 3) = Https /\ IsRawIp(Part(parts, 1)))

\* a server with a loopback connection, a link-local plex.direct host and a
\* bare address over TLS next to a usable one: only the usable one is offered
C11_Witness ==
  /\ Checked
  /\ \E s \in 1..Len(plexLoginState[1].servers) :
       LET conns == plexLoginState[1].servers[s].connections
       IN /\ \E a \in 1..Len(conns) : conns[a].address = DotIp(127, 0, 0, 1)
          /\ \E a \in 1..Len(conns) : conns[a].address = DotIp(169, 254, 3, 4)
          /\ \E a \in 1..Len(conns) :
               conns[a].protocol = Https /\ conns[a].uri # Null /\ IsRawIp(parseConnUri(conns[a].uri).host)
  /\ Len(Found) = 1
  /\ Len(plexLoginState[1].connectionOptions) = 1

----------------------------------------------------------------------------
(* The address classifier on its own: one host is classified next to the   *)
(* host it is compared with, as the collection loop classifies a host and  *)
(* its decoded address and as the sort comparator scores two hosts.        *)

ClassifyFirst == {10, 127, 169, 172, 192, 203}

ClassifySecond == {0, 15, 16, 31, 32, 168, 254}

ClassifyThird == {0, 1, 16, 255}

ClassifyAddresses == {<<a, b, c, 5>> : a \in ClassifyFirst, b \in ClassifySecond, c \in ClassifyThird}

\* hostnames that embed no address; the third one has an all-digit first label
ClassifyNames ==
  { <<"n", "a", "s", ".", "e", "x", "a", "m", "p", "l", "e", ".", "o", "r", "g">>, <<"l", "o", "c", "a", "l", "h", "o", "s", "t">>, <<"1", "0", ".", "e", "x", "a", "m", "p", "l", "e", ".", "o", "r", "g">> }

ClassifyHosts ==
  {DotIp(o[1], o[2], o[3], o[4]) : o \in ClassifyAddresses}
  \cup {DashHost(o[1], o[2], o[3], o[4]) : o \in ClassifyAddresses}
  \cup ClassifyNames

ClassifyPeers ==
  {DotIp(192, 168, c, 5) : c \in ClassifyThird}
  \cup {DotIp(10, 0, 0, 5), DashHost(192, 168, 1, 5), <<"n", "a", "s", ".", "e", "x", "a", "m", "p", "l", "e", ".", "o", "r", "g">>}

\* a hostname next to the address it encodes, and any host next to a peer
ClassifyPairs ==
  {<<DashHost(o[1], o[2], o[3], o[4]), DotIp(o[1], o[2], o[3], o[4])>> : o \in ClassifyAddresses}
  \cup (ClassifyHosts \X ClassifyPeers)

ClassifyInit ==
  /\ BrowseIdle
  /\ TokenIdle
  /\ LoginIdle
  /\ PluginIdle
  /\ GatewayIdle
  /\ UnitIdle
  /\ \E pair \in ClassifyPairs :
       /\ clHost = pair[1]
       /\ clPeer = pair[2]
  /\ clNoisy = <<>>
  /\ clScore = <<>>

\* isNoisyAddress(host) and isNoisyAddress(rawIp) of the collection loop
ClassifyNoise ==
  /\ clNoisy = <<>>
  /\ clNoisy' = <<isNoisyAddress(clHost), isNoisyAddress(clPeer)>>
  /\ UNCHANGED <<clHost, clPeer, clScore>>
  /\ UNCHANGED <<browseVars, tokenVars, loginVars, pluginVars, gatewayVars, unitVars, log>>
  /\ toast' = <<>>

\* connSortScore(a.host) and connSortScore(b.host) of the sort comparator
CompareScores ==
  /\ clScore = <<>>
  /\ clScore' = <<connSortScore(clHost), connSortScore(clPeer)>>
  /\ UNCHANGED <<clHost, clPeer, clNoisy>>
  /\ UNCHANGED <<browseVars, tokenVars, loginVars, pluginVars, gatewayVars, unitVars, log>>
  /\ toast' = <<>>

ClassifyNext == ClassifyNoise \/ CompareScores

SpecClassify == ClassifyInit /\ [][ClassifyNext]_vars

\* the score the address classes call for: the third number in 192.168/16,
\* 300 in 10/8, 400 elsewhere
ClassScore(o) ==
  IF o[1] = 192 /\ o[2] = 168 THEN o[3]
  ELSE IF o[1] = 10 THEN 300
  ELSE 400

C13_DashAgreesWithDotted ==
  clNoisy # <<>> =>
    \A o \in ClassifyAddresses :
      (clHost = DashHost(o[1], o[2], o[3], o[4]) /\ clPeer = DotIp(o[1], o[2], o[3], o[4])) =>
        /\ clNoisy[1] = clNoisy[2]
        /\ clNoisy[2] = NoisyOctets(o)

\* 172-31-255-5.example.plex.direct next to 172.31.255.5: both noisy
C13_Witness ==
  /\ clHost = DashHost(172, 31, 255, 5)
  /\ clPeer = DotIp(172, 31, 255, 5)
  /\ clNoisy = <<TRUE, TRUE>>

----------------------------------------------------------------------------
(* The catalog gateway under a browse or explode call: one http.get per    *)
(* request, the events Node delivers to it, and the async functions that   *)
(* await it.                                                               *)

\* this.timeoutMs = options.timeoutMs ?? 10000; the plugin passes no timeoutMs
DEFAULT_TIMEOUT_MS == 10000

\* an error object: its class name, its message and, for the classes that
\* carry one, its statusCode
PlexApiError(message, statusCode) ==
  [name |-> "PlexApiError", message |-> message, statusCode |-> <<statusCode>>]

\* class PlexAuthError extends PlexApiError: super(message, 401)
PlexAuthError ==
  [name |-> "PlexAuthError",
   message |-> <<"U", "n", "a", "u", "t", "h", "o", "r", "i", "z", "e", "d", " ">> \o <<EmDash>> \o <<" ", "c", "h", "e", "c", "k", " ", "y", "o", "u", "r", " ", "P", "l", "e", "x", " ", "t", "o", "k", "e", "n">>,
   statusCode |-> <<401>>]

PlexConnectionError(message) ==
  [name |-> "PlexConnectionError", message |-> message, statusCode |-> <<>>]

\* a built-in error: Error, TypeError, URIError
BuiltinError(name, message) == [name |-> name, message |-> message, statusCode |-> <<>>]

HostPort(client) == client.host \o <<":">> \o ToStr(client.port)

FailedToConnect(client) ==
  PlexConnectionError(<<"F", "a", "i", "l", "e", "d", " ", "t", "o", " ", "c", "o", "n", "n", "e", "c", "t", " ", "t", "o", " ", "P", "l", "e", "x", " ", "s", "e", "r", "v", "e", "r", " ", "a", "t", " ">> \o HostPort(client))

TimedOut(client) ==
  PlexConnectionError(<<"R", "e", "q", "u", "e", "s", "t", " ", "t", "o", " ", "P", "l", "e", "x", " ", "s", "e", "r", "v", "e", "r", " ", "a", "t", " ">> \o HostPort(client)
                      \o <<" ", "t", "i", "m", "e", "d", " ", "o", "u", "t", " ", "a", "f", "t", "e", "r", " ">> \o ToStr(DEFAULT_TIMEOUT_MS) \o <<"m", "s">>)

FailedToParse == PlexConnectionError(<<"F", "a", "i", "l", "e", "d", " ", "t", "o", " ", "p", "a", "r", "s", "e", " ", "P", "l", "e", "x", " ", "A", "P", "I", " ", "r", "e", "s", "p", "o", "n", "s", "e", " ", "a", "s", " ", "J", "S", "O", "N">>)

\* A response body. parsable: whether JSON.parse accepts the text; the other
\* fields are what the parsers read from MediaContainer: the number of
\* Directory/Metadata entries, librarySectionID, and the Media field of the
\* first Metadata entry (<<>>: no Media field, <<entries>>: the array; an
\* entry is <<>> without a Part field and <<keys>> with the Part array).
Body(parsable, size, section, media) ==
  [parsable |-> parsable, size |-> size, librarySectionID |-> section, Media |-> media]

Unparsable == Body(FALSE, 0, <<>>, <<>>)

StreamKey == <<"/", "l", "i", "b", "r", "a", "r", "y", "/", "p", "a", "r", "t", "s", "/", "9", "/", "f", "i", "l", "e", ".", "f", "l", "a", "c">>

\* what a promise was settled with
Resolved(body) ==
  [state |-> "resolved", name |-> "", message |-> <<>>, statusCode |-> <<>>, body |-> body]

Rejected(error) ==
  [state |-> "rejected", name |-> error.name, message |-> error.message,
   statusCode |-> error.statusCode, body |-> Unparsable]

\* the response callback of request(): <<>> when the body is to be read,
\* else <<the error the promise is rejected with>>
OnResponse401AsServerError(status, statusMessage) ==
  LET statusCode == IF status = <<>> THEN 0 ELSE status[1]
  IN IF statusCode < 200 \/ statusCode >= 300
     THEN <<PlexApiError(<<"P", "l", "e", "x", " ", "A", "P", "I", " ", "e", "r", "r", "o", "r", ":", " ">> \o ToStr(statusCode)
                           \o (IF statusMessage = <<>> THEN <<>> ELSE <<" ">> \o statusMessage),
                         statusCode)>>
     ELSE <<>>

OnResponse(status, statusMessage) ==
  LET statusCode == IF status = <<>> THEN 0 ELSE status[1]
  IN IF statusCode = 401 THEN <<PlexAuthError>>
     ELSE IF statusCode < 200 \/ statusCode >= 300
     THEN <<PlexApiError(<<"P", "l", "e", "x", " ", "A", "P", "I", " ", "e", "r", "r", "o", "r", ":", " ">> \o ToStr(statusCode)
                           \o (IF statusMessage = <<>> THEN <<>> ELSE <<" ">> \o statusMessage),
                         statusCode)>>
     ELSE <<>>

\* res.on("end"): resolve(JSON.parse(body)), or reject when it throws
OnEnd(body) == IF body.parsable THEN Resolved(body) ELSE Rejected(FailedToParse)

\* resolve/reject on a promise: only the first call settles it
Settle(settled, outcome) == Append(settled, outcome)

PromiseState(settled) == IF settled = <<>> THEN <<>> ELSE <<settled[1]>>

\* the argument of http.get in request(path)
HttpGet(client, operation, path) ==
  [operation |-> operation, options |-> Request(client, path), timeout |-> DEFAULT_TIMEOUT_MS]

\* parseTracks(raw): item.Media[0]?.Part[0]?.key ?? "" for every Metadata
\* entry; reading [0] of a missing Media or Part field throws a TypeError
parseTracks(raw) ==
  IF raw.size = 0 THEN [threw |-> FALSE, streamKeys |-> <<>>]
  ELSE IF raw.Media = <<>> THEN [threw |-> TRUE, streamKeys |-> <<>>]
  ELSE IF raw.Media[1] = <<>> THEN [threw |-> FALSE, streamKeys |-> << <<>> >>]
  ELSE IF raw.Media[1][1] = <<>> THEN [threw |-> TRUE, streamKeys |-> <<>>]
  ELSE IF raw.Media[1][1][1] = <<>> THEN [threw |-> FALSE, streamKeys |-> << <<>> >>]
  ELSE [threw |-> FALSE, streamKeys |-> <<raw.Media[1][1][1][1]>>]

CannotReadZero ==
  BuiltinError("TypeError", <<"C", "a", "n", "n", "o", "t", " ", "r", "e", "a", "d", " ", "p", "r", "o", "p", "e", "r", "t", "i", "e", "s", " ", "o", "f", " ", "u", "n", "d", "e", "f", "i", "n", "e", "d", " ", "(", "r", "e", "a", "d", "i", "n", "g", " ", "'", "0", "'", ")">>)

\* what an async function of the facade or the navigator settles with
Returned(value) ==
  [state |-> "resolved", name |-> "", message |-> <<>>, statusCode |-> <<>>, value |-> value]

Thrown(error) ==
  [state |-> "rejected", name |-> error.name, message |-> error.message,
   statusCode |-> error.statusCode, value |-> <<>>]

\* PlexService.getPlayableTrack after its await of getTrackMetadata
getPlayableTrack(trackId, raw) ==
  LET tracks == parseTracks(raw)
  IN IF tracks.threw THEN Thrown(CannotReadZero)
     ELSE IF Len(tracks.streamKeys) = 0
     THEN Thrown(BuiltinError("Error", <<"T", "r", "a", "c", "k", " ", "n", "o", "t", " ", "f", "o", "u", "n", "d", ":", " ">> \o trackId))
     ELSE IF tracks.streamKeys[1] = <<>>
     THEN Thrown(BuiltinError("Error", <<"T", "r", "a", "c", "k", " ">> \o trackId \o <<" ", "h", "a", "s", " ", "n", "o", " ", "p", "l", "a", "y", "a", "b", "l", "e", " ", "m", "e", "d", "i", "a">>))
     ELSE Returned(tracks.streamKeys[1])

\* a listing handed to the caller: tracks are parsed, the other listings are not
Listing(operation, raw) ==
  IF operation \in {"getTracks", "getPopularTracks", "getPlaylistItems"} /\ parseTracks(raw).threw
  THEN Thrown(CannotReadZero)
  ELSE Returned(<<"i", "t", "e", "m", "s">>)

\* the error of the plugin's own wrappers when it holds no adapter
PluginNotInitialized == BuiltinError("Error", <<"P", "l", "e", "x", " ", "p", "l", "u", "g", "i", "n", " ", "n", "o", "t", " ", "i", "n", "i", "t", "i", "a", "l", "i", "z", "e", "d">>)

\* requireService()
NotInitialized ==
  BuiltinError("Error", <<"P", "l", "e", "x", "S", "e", "r", "v", "i", "c", "e", " ", "n", "o", "t", " ", "i", "n", "i", "t", "i", "a", "l", "i", "z", "e", "d", " ">> \o <<EmDash>> \o <<" ", "c", "a", "l", "l", " ", "o", "n", "V", "o", "l", "u", "m", "i", "o", "S", "t", "a", "r", "t", " ", "f", "i", "r", "s", "t">>)

\* the if-chain of _handleBrowseUri: the handler a token is dispatched to
BrowseRouteAcceptsEmptyKey(u) ==
  LET parts == Split(u, "/")
  IN IF u = PlexRoot THEN "root"
     ELSE IF MatchesCursorRoute(u, ArtistsUri) \/ MatchesSortRoute(u, ArtistsUri) THEN "artists"
     ELSE IF MatchesCursorRoute(u, AlbumsUri) \/ MatchesSortRoute(u, AlbumsUri) THEN "albums"
     ELSE IF u = <<"p", "l", "e", "x", "/", "p", "l", "a", "y", "l", "i", "s", "t", "s">> THEN "playlists"
     ELSE IF Part(parts, 1) = <<"a", "r", "t", "i", "s", "t">> THEN "artist"
     ELSE IF Part(parts, 1) = <<"p", "o", "p", "u", "l", "a", "r">> THEN "popular"
     ELSE IF Part(parts, 1) = <<"s", "h", "u", "f", "f", "l", "e", "-", "a", "l", "b", "u", "m">> THEN "shuffle-album"
     ELSE IF Part(parts, 1) = <<"s", "h", "u", "f", "f", "l", "e", "-", "p", "l", "a", "y", "l", "i", "s", "t">> THEN "shuffle-playlist"
     ELSE IF Part(parts, 1) = <<"a", "l", "b", "u", "m">> THEN "album"
     ELSE IF Part(parts, 1) = <<"p", "l", "a", "y", "l", "i", "s", "t">> THEN "playlist"
     ELSE "unknown"

BrowseRoute(u) ==
  LET parts == Split(u, "/")
  IN IF u = PlexRoot THEN "root"
     ELSE IF MatchesCursorRoute(u, ArtistsUri) \/ MatchesSortRoute(u, ArtistsUri) THEN "artists"
     ELSE IF MatchesCursorRoute(u, AlbumsUri) \/ MatchesSortRoute(u, AlbumsUri) THEN "albums"
     ELSE IF u = <<"p", "l", "e", "x", "/", "p", "l", "a", "y", "l", "i", "s", "t", "s">> THEN "playlists"
     ELSE IF Part(parts, 1) = <<"a", "r", "t", "i", "s", "t">> /\ Part(parts, 2) # <<>> THEN "artist"
     ELSE IF Part(parts, 1) = <<"p", "o", "p", "u", "l", "a", "r">> /\ Part(parts, 2) # <<>> THEN "popular"
     ELSE IF Part(parts, 1) = <<"s", "h", "u", "f", "f", "l", "e", "-", "a", "l", "b", "u", "m">> /\ Part(parts, 2) # <<>> THEN "shuffle-album"
     ELSE IF Part(parts, 1) = <<"s", "h", "u", "f", "f", "l", "e", "-", "p", "l", "a", "y", "l", "i", "s", "t">> /\ Part(parts, 2) # <<>> THEN "shuffle-playlist"
     ELSE IF Part(parts, 1) = <<"a", "l", "b", "u", "m">> /\ Part(parts, 2) # <<>> THEN "album"
     ELSE IF Part(parts, 1) = <<"p", "l", "a", "y", "l", "i", "s", "t">> /\ Part(parts, 2) # <<>> THEN "playlist"
     ELSE "unknown"

\* the if-chain of _explodeUri
ExplodeRoute(u) ==
  LET parts == Split(u, "/")
  IN IF Part(parts, 2) = <<>> THEN "unknown"
     ELSE IF Part(parts, 1) = <<"t", "r", "a", "c", "k">> THEN "track"
     ELSE IF Part(parts, 1) = <<"p", "o", "p", "u", "l", "a", "r">> THEN "popular"
     ELSE IF Part(parts, 1) = <<"s", "h", "u", "f", "f", "l", "e", "-", "a", "l", "b", "u", "m">> THEN "shuffle-album"
     ELSE IF Part(parts, 1) = <<"s", "h", "u", "f", "f", "l", "e", "-", "p", "l", "a", "y", "l", "i", "s", "t">> THEN "shuffle-playlist"
     ELSE IF Part(parts, 1) = <<"a", "l", "b", "u", "m">> THEN "album"
     ELSE IF Part(parts, 1) = <<"p", "l", "a", "y", "l", "i", "s", "t">> THEN "playlist"
     ELSE "unknown"

UnknownBrowseUri(u) == BuiltinError("Error", <<"U", "n", "k", "n", "o", "w", "n", " ", "b", "r", "o", "w", "s", "e", " ", "U", "R", "I", ":", " ">> \o u)

CannotExplodeUri(u) == BuiltinError("Error", <<"C", "a", "n", "n", "o", "t", " ", "e", "x", "p", "l", "o", "d", "e", " ", "U", "R", "I", ":", " ">> \o u)

\* parts.slice(2).join("/"): what follows the second slash
KeyPart(u) ==
  LET rest == Slice(u, IndexOf(u, "/") + 1)
  IN Slice(rest, IndexOf(rest, "/") + 1)

\* the key a keyed route hands to its handler: parts[2] for plex/popular and
\* plex/track, the text before "@" for a browsed playlist, and
\* decodePathSegment of it elsewhere; Null is the URIError of decodeURIComponent
RouteKey(entry, route, u) ==
  LET raw == KeyPart(u)
      atIndex == IndexOf(raw, "@")
  IN IF route \in {"popular", "track"} THEN Part(Split(u, "/"), 2)
     ELSE IF entry = "browse" /\ route = "playlist" /\ atIndex # -1
     THEN decodePathSegment(SliceTo(raw, 0, atIndex))
     ELSE decodePathSegment(raw)

UriMalformed == BuiltinError("URIError", <<"U", "R", "I", " ", "m", "a", "l", "f", "o", "r", "m", "e", "d">>)

PageQuery(offset, limit) ==
  <<"X", "-", "P", "l", "e", "x", "-", "C", "o", "n", "t", "a", "i", "n", "e", "r", "-", "S", "t", "a", "r", "t", "=">> \o ToStr(offset) \o <<"&", "X", "-", "P", "l", "e", "x", "-", "C", "o", "n", "t", "a", "i", "n", "e", "r", "-", "S", "i", "z", "e", "=">> \o ToStr(limit)

\* the gateway operation a handler awaits first, and the path it requests
FirstRequest(client, entry, route, u, limit) ==
  LET key == RouteKey(entry, route, u)
      raw == KeyPart(u)
      atIndex == IndexOf(raw, "@")
      offset == IF atIndex = -1 THEN 0 ELSE OrZero(ParseInt(Slice(raw, atIndex + 1)))
  IN CASE route \in {"artists", "albums"} ->
            HttpGet(client, "getLibraries", <<"/", "l", "i", "b", "r", "a", "r", "y", "/", "s", "e", "c", "t", "i", "o", "n", "s">>)
       [] route = "playlists" -> HttpGet(client, "getPlaylists", <<"/", "p", "l", "a", "y", "l", "i", "s", "t", "s">>)
       [] route = "artist" -> HttpGet(client, "getArtistAlbums", key)
       [] route \in {"album", "shuffle-album"} -> HttpGet(client, "getTracks", key)
       [] route = "playlist" /\ entry = "browse" ->
            HttpGet(client, "getPlaylistItems",
                    key \o (IF IndexOf(key, "?") # -1 THEN <<"&">> ELSE <<"?">>)
                        \o PageQuery(offset, limit))
       [] route \in {"playlist", "shuffle-playlist"} /\ ~(route = "playlist" /\ entry = "browse") ->
            HttpGet(client, "getPlaylistItems", key)
       [] route = "popular" ->
            HttpGet(client, "getPopularTracks", <<"/", "l", "i", "b", "r", "a", "r", "y", "/", "m", "e", "t", "a", "d", "a", "t", "a", "/">> \o encodeURIComponent(key))
       [] route = "track" ->
            HttpGet(client, "getTrackMetadata", <<"/", "l", "i", "b", "r", "a", "r", "y", "/", "m", "e", "t", "a", "d", "a", "t", "a", "/">> \o encodeURIComponent(key))

\* jsPromiseToKew: promise.then(defer.resolve).catch(defer.reject)
jsPromiseToKewAsGenericError(settled) ==
  IF settled.state = "rejected"
  THEN Thrown(BuiltinError("Error", settled.message))
  ELSE settled

jsPromiseToKew(settled) == settled

\* _handleBrowseUri / _explodeUri up to the first await: either the promise
\* settles at once (result) or a first request goes out (request)
Begin(service, entry, u, limit) ==
  LET route == IF entry = "browse" THEN BrowseRoute(u) ELSE ExplodeRoute(u)
  IN IF service = <<>> THEN [request |-> <<>>, result |-> <<Thrown(NotInitialized)>>]
     ELSE IF route = "unknown"
     THEN [request |-> <<>>,
           result |-> <<Thrown(IF entry = "browse" THEN UnknownBrowseUri(u) ELSE CannotExplodeUri(u))>>]
     ELSE IF route = "root" THEN [request |-> <<>>, result |-> <<Returned(<<"r", "o", "o", "t">>)>>]
     ELSE IF route \notin {"artists", "albums", "playlists"} /\ RouteKey(entry, route, u) = Null
     THEN [request |-> <<>>, result |-> <<Thrown(UriMalformed)>>]
     ELSE [request |-> <<FirstRequest(service[1], entry, route, u, limit)>>, result |-> <<>>]

\* the async functions above a settled request: a rejection is rethrown by
\* every await on the way up; a body is parsed, and either the next request
\* of the call goes out or the call settles
OnRejectedReissuesOnce(sent, settled) ==
  IF Len(sent) < 2
  THEN [request |-> <<sent[Len(sent)]>>, result |-> <<>>]
  ELSE [request |-> <<>>, result |-> <<Thrown(settled)>>]

\* no try/catch and no retry between request() and the entry point
OnRejected(sent, settled) == [request |-> <<>>, result |-> <<Thrown(settled)>>]

Resume(c, sent, settled, limit) ==
  LET request == sent[Len(sent)]
      raw == settled.body
      pagination == parsePaginationUri(c.uri)
      libraryKey == IF pagination.libraryKey # Null THEN pagination.libraryKey
                    ELSE IF raw.size > 0 THEN LibId(1) ELSE Null
      artistId == Part(Split(c.uri, "/"), 2)
  IN IF settled.state = "rejected" THEN OnRejected(sent, settled)
     ELSE IF request.operation = "getLibraries"
     THEN IF libraryKey = Null THEN [request |-> <<>>, result |-> <<Returned(<<"i", "t", "e", "m", "s">>)>>]
          ELSE [request |->
                  <<HttpGet(c.client, IF c.route = "artists" THEN "getArtists" ELSE "getAlbums",
                            <<"/", "l", "i", "b", "r", "a", "r", "y", "/", "s", "e", "c", "t", "i", "o", "n", "s", "/">> \o encodeURIComponent(libraryKey)
                              \o <<"/", "a", "l", "l", "?", "t", "y", "p", "e", "=">> \o (IF c.route = "artists" THEN <<"8">> ELSE <<"9">>)
                              \o <<"&">> \o PageQuery(pagination.offset, limit))>>,
                result |-> <<>>]
     ELSE IF request.operation = "getPopularTracks" /\ Len(sent) = 1
     THEN IF raw.librarySectionID = <<>>
          THEN [request |-> <<>>,
                result |-> <<Thrown(PlexApiError(<<"C", "o", "u", "l", "d", " ", "n", "o", "t", " ", "d", "e", "t", "e", "r", "m", "i", "n", "e", " ", "l", "i", "b", "r", "a", "r", "y", " ", "s", "e", "c", "t", "i", "o", "n", " ", "f", "o", "r", " ", "a", "r", "t", "i", "s", "t", " ">>
                                                   \o artistId, 0))>>]
          ELSE [request |->
                  <<HttpGet(c.client, "getPopularTracks",
                            <<"/", "l", "i", "b", "r", "a", "r", "y", "/", "s", "e", "c", "t", "i", "o", "n", "s", "/">> \o encodeURIComponent(ToStr(raw.librarySectionID[1]))
                              \o <<"/", "a", "l", "l", "?", "t", "y", "p", "e", "=", "1", "0", "&", "a", "r", "t", "i", "s", "t", ".", "i", "d", "=">> \o encodeURIComponent(artistId)
                              \o <<"&", "s", "o", "r", "t", "=", "r", "a", "t", "i", "n", "g", "C", "o", "u", "n", "t", ":", "d", "e", "s", "c", "&", "l", "i", "m", "i", "t", "=", "1", "0", "0">>)>>,
                result |-> <<>>]
     ELSE IF request.operation = "getTrackMetadata"
     THEN [request |-> <<>>, result |-> <<getPlayableTrack(artistId, raw)>>]
     ELSE [request |-> <<>>, result |-> <<Listing(request.operation, raw)>>]

----------------------------------------------------------------------------
(* The gateway state machine.                                              *)

BrowseTokens ==
  {PlexRoot, ArtistsUri, <<"p", "l", "e", "x", "/", "a", "l", "b", "u", "m", "s", "@", "1", ":", "0">>, <<"p", "l", "e", "x", "/", "p", "l", "a", "y", "l", "i", "s", "t", "s">>,
   <<"p", "l", "e", "x", "/", "a", "r", "t", "i", "s", "t", "/", "_", "_", "l", "i", "b", "r", "a", "r", "y", "_", "_", "m", "e", "t", "a", "d", "a", "t", "a", "_", "_", "5", "_", "_", "c", "h", "i", "l", "d", "r", "e", "n">>, <<"p", "l", "e", "x", "/", "p", "o", "p", "u", "l", "a", "r", "/", "5">>,
   <<"p", "l", "e", "x", "/", "s", "h", "u", "f", "f", "l", "e", "-", "a", "l", "b", "u", "m", "/", "%", "2", "F", "l", "i", "b", "r", "a", "r", "y", "%", "2", "F", "m", "e", "t", "a", "d", "a", "t", "a", "%", "2", "F", "7", "%", "2", "F", "c", "h", "i", "l", "d", "r", "e", "n">>,
   <<"p", "l", "e", "x", "/", "s", "h", "u", "f", "f", "l", "e", "-", "p", "l", "a", "y", "l", "i", "s", "t", "/", "_", "_", "p", "l", "a", "y", "l", "i", "s", "t", "s", "_", "_", "3", "_", "_", "i", "t", "e", "m", "s">>,
   <<"p", "l", "e", "x", "/", "a", "l", "b", "u", "m", "/", "%", "2", "F", "l", "i", "b", "r", "a", "r", "y", "%", "2", "F", "m", "e", "t", "a", "d", "a", "t", "a", "%", "2", "F", "7", "%", "2", "F", "c", "h", "i", "l", "d", "r", "e", "n">>,
   <<"p", "l", "e", "x", "/", "p", "l", "a", "y", "l", "i", "s", "t", "/", "_", "_", "p", "l", "a", "y", "l", "i", "s", "t", "s", "_", "_", "3", "_", "_", "i", "t", "e", "m", "s", "@", "1">>,
   <<"p", "l", "e", "x", "/", "a", "l", "b", "u", "m", "/", "%", "2">>, <<"p", "l", "e", "x", "/", "a", "l", "b", "u", "m", "/">>, <<"p", "l", "e", "x", "/", "u", "n", "k", "n", "o", "w", "n", "/", "t", "h", "i", "n", "g">>, <<"p", "l", "e", "x", "/", "a", "r", "t", "i", "s", "t", "s", "X">>,
   <<"p", "l", "e", "x", "/", "t", "r", "a", "c", "k", "/", "2", "0", "0", "1">>, <<"m", "u", "s", "i", "c", "/", "a", "l", "b", "u", "m", "/", "7">>, <<"p", "l", "e", "x", "a", "m", "p">>}

ExplodeTokens ==
  {<<"p", "l", "e", "x", "/", "t", "r", "a", "c", "k", "/", "2", "0", "0", "1">>, <<"p", "l", "e", "x", "/", "p", "o", "p", "u", "l", "a", "r", "/", "5">>, <<"p", "l", "e", "x", "/", "a", "l", "b", "u", "m", "/", "_", "_", "l", "i", "b", "r", "a", "r", "y", "_", "_", "m", "e", "t", "a", "d", "a", "t", "a", "_", "_", "7", "_", "_", "c", "h", "i", "l", "d", "r", "e", "n">>,
   <<"p", "l", "e", "x", "/", "p", "l", "a", "y", "l", "i", "s", "t", "/", "_", "_", "p", "l", "a", "y", "l", "i", "s", "t", "s", "_", "_", "3", "_", "_", "i", "t", "e", "m", "s">>, <<"p", "l", "e", "x", "/", "s", "h", "u", "f", "f", "l", "e", "-", "a", "l", "b", "u", "m", "/", "%", "2">>,
   <<"p", "l", "e", "x", "/", "s", "h", "u", "f", "f", "l", "e", "-", "p", "l", "a", "y", "l", "i", "s", "t", "/", "_", "_", "p", "l", "a", "y", "l", "i", "s", "t", "s", "_", "_", "3", "_", "_", "i", "t", "e", "m", "s">>, <<"p", "l", "e", "x", "/", "t", "r", "a", "c", "k", "/">>, ArtistsUri}

\* res.statusCode: <<>> when the parser left it undefined
Statuses == {<<>>, <<200>>, <<204>>, <<301>>, <<401>>, <<404>>, <<500>>}

StatusMessage(status) ==
  CASE status = <<200>> -> <<"O", "K">>
    [] status = <<204>> -> <<"N", "o", " ", "C", "o", "n", "t", "e", "n", "t">>
    [] status = <<301>> -> <<"M", "o", "v", "e", "d", " ", "P", "e", "r", "m", "a", "n", "e", "n", "t", "l", "y">>
    [] status = <<401>> -> <<"U", "n", "a", "u", "t", "h", "o", "r", "i", "z", "e", "d">>
    [] status = <<404>> -> <<"N", "o", "t", " ", "F", "o", "u", "n", "d">>
    [] status = <<500>> -> <<>>
    [] status = <<>> -> <<>>

Playable == << << << <<StreamKey>> >> >> >>

\* the bodies a server may answer the request with
Bodies(request, nth) ==
  {Unparsable} \cup
  (CASE request.operation = "getLibraries" -> {Body(TRUE, 0, <<>>, <<>>), Body(TRUE, 1, <<>>, <<>>)}
     [] request.operation = "getPopularTracks" /\ nth = 1 ->
          {Body(TRUE, 1, <<>>, <<>>), Body(TRUE, 1, <<1>>, <<>>)}
     [] request.operation = "getTrackMetadata" ->
          {Body(TRUE, 0, <<>>, <<>>), Body(TRUE, 1, <<1>>, <<>>), Body(TRUE, 1, <<1>>, << <<>> >>),
           Body(TRUE, 1, <<1>>, << << <<>> >> >>), Body(TRUE, 1, <<1>>, << << << <<>> >> >> >>),
           Body(TRUE, 1, <<1>>, Playable)}
     [] request.operation \in {"getTracks", "getPlaylistItems"}
          \/ (request.operation = "getPopularTracks" /\ nth # 1) ->
          {Body(TRUE, 0, <<>>, <<>>), Body(TRUE, 1, <<1>>, <<>>), Body(TRUE, 1, <<1>>, Playable)}
     [] OTHER -> {Body(TRUE, 1, <<>>, <<>>)})

\* the call settles at once, or waits for its first request
Enter(entry, u) ==
  LET b == Begin(adapter.plexService, entry, u, pageSize)
  IN /\ opCall = <<>>
     /\ IF b.request = <<>>
        THEN /\ opCall' = <<>>
             /\ opResult' = <<jsPromiseToKew(b.result[1])>>
             /\ gwPhase' = "idle"
             /\ gwSent' = <<>>
        ELSE /\ opCall' = <<[entry |-> entry, uri |-> u,
                             route |-> IF entry = "browse" THEN BrowseRoute(u) ELSE ExplodeRoute(u),
                             client |-> adapter.plexService[1]]>>
             /\ opResult' = <<>>
             /\ gwPhase' = "sent"
             /\ gwSent' = b.request
     /\ gwEvents' = <<>>
     /\ gwSettled' = <<>>
     /\ UNCHANGED <<browseVars, tokenVars, classifyVars, loginVars, pluginVars, unitVars>>
     /\ toast' = <<>>

HandleBrowseUri ==
  \E u \in BrowseTokens :
    /\ log' = <<HandleBrowseLogLine(u)>>
    /\ Enter("browse", u)

ExplodeUri ==
  \E u \in ExplodeTokens :
    /\ log' = << <<"[Plex] explodeUri: ">> \o u >>
    /\ Enter("explode", u)

Event(event, status, body) == [event |-> event, status |-> status, body |-> body]

GatewayEvent(event, phase, settled) ==
  /\ opCall # <<>>
  /\ gwEvents' = Append(gwEvents, event)
  /\ gwPhase' = phase
  /\ gwSettled' = settled
  /\ log' = <<>>
  /\ UNCHANGED <<opCall, opResult, gwSent>>
  /\ UNCHANGED <<browseVars, tokenVars, classifyVars, loginVars, pluginVars, unitVars>>
  /\ toast' = <<>>

\* the response callback of http.get
ResponseArrives ==
  \E status \in Statuses :
    LET error == OnResponse(status, StatusMessage(status))
    IN /\ gwPhase = "sent"
       /\ IF error = <<>> THEN GatewayEvent(Event("response", status, Unparsable), "receiving", gwSettled)
          ELSE GatewayEvent(Event("response", status, Unparsable), "drained", Settle(gwSettled, Rejected(error[1])))

\* res "end"
BodyEnds ==
  /\ gwPhase = "receiving"
  /\ \E body \in Bodies(gwSent[Len(gwSent)], Len(gwSent)) :
       GatewayEvent(Event("end", <<>>, body), "closed", Settle(gwSettled, OnEnd(body)))

\* res "error": the connection breaks while the body is read, also after
\* the request was destroyed by its timeout handler
ResponseError ==
  /\ gwPhase \in {"receiving", "destroyedReceiving"}
  /\ GatewayEvent(Event("response error", <<>>, Unparsable), "closed", Settle(gwSettled, Rejected(FailedToConnect(opCall[1].client))))

\* req "timeout": req.destroy(), then reject
RequestTimeout ==
  /\ gwPhase \in {"sent", "receiving"}
  /\ GatewayEvent(Event("timeout", <<>>, Unparsable),
                  IF gwPhase = "sent" THEN "destroyedSent" ELSE "destroyedReceiving",
                  Settle(gwSettled, Rejected(TimedOut(opCall[1].client))))

\* req "error": refused, unreachable, unresolvable, or the socket hang up
\* that follows req.destroy() before a response
RequestError ==
  /\ gwPhase \in {"sent", "destroyedSent"}
  /\ GatewayEvent(Event("request error", <<>>, Unparsable), "closed", Settle(gwSettled, Rejected(FailedToConnect(opCall[1].client))))

\* the awaiting functions run with the state of the request's promise
CallResumes ==
  /\ opCall # <<>>
  /\ gwSettled # <<>>
  /\ LET r == Resume(opCall[1], gwSent, gwSettled[1], pageSize)
     IN IF r.request # <<>>
        THEN /\ gwSent' = gwSent \o r.request
             /\ gwPhase' = "sent"
             /\ gwEvents' = <<>>
             /\ gwSettled' = <<>>
             /\ UNCHANGED <<opCall, opResult>>
        ELSE /\ opCall' = <<>>
             /\ opResult' = <<jsPromiseToKew(r.result[1])>>
             /\ UNCHANGED <<gwSent, gwPhase, gwEvents, gwSettled>>
  /\ log' = <<>>
  /\ UNCHANGED <<browseVars, tokenVars, classifyVars, loginVars, pluginVars, unitVars>>
  /\ toast' = <<>>

GatewayInit ==
  /\ BrowseIdle
  /\ TokenIdle
  /\ LoginIdle
  /\ PluginIdle
  /\ ClassifyIdle
  /\ GatewayIdle
  /\ UnitIdle

GatewayNext ==
  \/ HandleBrowseUri
  \/ ExplodeUri
  \/ ResponseArrives
  \/ BodyEnds
  \/ ResponseError
  \/ RequestTimeout
  \/ RequestError
  \/ CallResumes
  \/ OnStart
  \/ OnStop

SpecGateway == GatewayInit /\ [][GatewayNext]_vars

----------------------------------------------------------------------------
(* Claims about the gateway's error kinds.                                 *)

IsSuccessStatus(status) == status # <<>> /\ status[1] >= 200 /\ status[1] < 300

IsSettlingEvent(e) == ~(e.event = "response" /\ IsSuccessStatus(e.status))

SettlingEvents == SelectSeq(gwEvents, IsSettlingEvent)

GatewayErrorKinds == {"PlexAuthError", "PlexApiError", "PlexConnectionError"}

\* C14: the promise of every gateway request takes the outcome of the first
\* event that settles it, and that outcome has exactly one kind: a 401
\* response is an authentication error; any other response outside 200..299
\* is a server error carrying the status code (0 when the response has
\* none); a timeout, a transport error on the request or on the response,
\* and a body that JSON.parse refuses are connection errors; only a body
\* that parses resolves the request.
C14_OutcomeClassified ==
  LET events == SettlingEvents
  IN /\ Len(gwSettled) = Len(events)
     /\ gwSettled # <<>> =>
          LET first == events[1]
              outcome == PromiseState(gwSettled)[1]
              code == IF first.status = <<>> THEN 0 ELSE first.status[1]
          IN /\ (outcome.state = "rejected") = (outcome.name \in GatewayErrorKinds)
             /\ (outcome.state = "resolved") = (outcome.name = "")
             /\ outcome.state \in {"resolved", "rejected"}
             /\ (outcome.name = "PlexAuthError") = (first.event = "response" /\ code = 401)
             /\ (outcome.name = "PlexApiError") = (first.event = "response" /\ code # 401)
             /\ outcome.name = "PlexApiError" => outcome.statusCode = <<code>>
             /\ (outcome.name = "PlexConnectionError") =
                  (\/ first.event \in {"timeout", "request error", "response error"}
                   \/ first.event = "end" /\ ~first.body.parsable)
             /\ (outcome.state = "resolved") = (first.event = "end" /\ first.body.parsable)
             /\ outcome.state = "resolved" => outcome.body = first.body

\* a request that timed out while its body was being read, and whose
\* response then failed: a connection error, rejected once
C14_Witness ==
  /\ Len(gwEvents) = 3
  /\ gwEvents[1].event = "response" /\ gwEvents[1].status = <<200>>
  /\ gwEvents[2].event = "timeout"
  /\ gwEvents[3].event = "response error"
  /\ Len(gwSettled) = 2
  /\ gwSettled[1].name = "PlexConnectionError"

\* the call that just ended asked for one track, and the server answered
\* with a Metadata entry that has no media file behind it
TrackWithoutMediaFile ==
  /\ opCall = <<>>
  /\ opResult # <<>>
  /\ gwSent # <<>>
  /\ gwSent[Len(gwSent)].operation = "getTrackMetadata"
  /\ gwSettled # <<>>
  /\ gwSettled[1].state = "resolved"
  /\ gwSettled[1].body.size > 0
  /\ gwSettled[1].body.Media \in {<<>>, << <<>> >>, << << <<>> >> >>, << << << <<>> >> >> >>}

GenericErrors == {"Error", "TypeError", "URIError"}

\* C15: whenever the requested track resolves to zero media files, "get
\* playable track" rejects with an error of a domain (not-found) class, not
\* with a generic Error.
C15_ZeroMediaIsDomainError ==
  TrackWithoutMediaFile =>
    /\ opResult[1].state = "rejected"
    /\ opResult[1].name \notin GenericErrors

\* explodeUri("plex/track/2001") on a track whose Media array is empty
C15_Witness ==
  /\ TrackWithoutMediaFile
  /\ gwSettled[1].body.Media = << <<>> >>
  /\ opResult[1].state = "rejected"
  /\ opResult[1].name = "Error"
  /\ opResult[1].message = <<"T", "r", "a", "c", "k", " ", "2", "0", "0", "1", " ", "h", "a", "s", " ", "n", "o", " ", "p", "l", "a", "y", "a", "b", "l", "e", " ", "m", "e", "d", "i", "a">>

\* C16: when a request of a browse call is rejected by the gateway with an
\* authentication, server or connection error, the browse call rejects with
\* that same error: same class, same message, same status code.
C16_GatewayErrorPropagates ==
  [][(/\ opCall # <<>>
      /\ opCall[1].entry = "browse"
      /\ opCall' = <<>>
      /\ gwSettled # <<>>
      /\ gwSettled[1].state = "rejected")
     => (/\ opResult' # <<>>
         /\ opResult'[1].state = "rejected"
         /\ opResult'[1].name \in GatewayErrorKinds
         /\ opResult'[1].name = gwSettled[1].name
         /\ opResult'[1].message = gwSettled[1].message
         /\ opResult'[1].statusCode = gwSettled[1].statusCode)]_vars

\* browsing plex/artists: the libraries arrived, the artists request was
\* answered 401, and the browse call rejected with the authentication error
C16_Witness ==
  /\ opCall = <<>>
  /\ Len(gwSent) = 2
  /\ gwSent[2].operation = "getArtists"
  /\ gwSettled # <<>>
  /\ gwSettled[1].name = "PlexAuthError"
  /\ opResult # <<>>
  /\ opResult[1].state = "rejected"
  /\ opResult[1].name = "PlexAuthError"
  /\ opResult[1].statusCode = <<401>>

\* the tokens of BrowseTokens that match a route of the router: the root,
\* a collection list with or without a cursor, and a keyed route with a
\* non-empty key (the router does not look at the segment before the route)
RoutedTokens ==
  {PlexRoot, ArtistsUri, <<"p", "l", "e", "x", "/", "a", "l", "b", "u", "m", "s", "@", "1", ":", "0">>, <<"p", "l", "e", "x", "/", "p", "l", "a", "y", "l", "i", "s", "t", "s">>,
   <<"p", "l", "e", "x", "/", "a", "r", "t", "i", "s", "t", "/", "_", "_", "l", "i", "b", "r", "a", "r", "y", "_", "_", "m", "e", "t", "a", "d", "a", "t", "a", "_", "_", "5", "_", "_", "c", "h", "i", "l", "d", "r", "e", "n">>, <<"p", "l", "e", "x", "/", "p", "o", "p", "u", "l", "a", "r", "/", "5">>,
   <<"p", "l", "e", "x", "/", "s", "h", "u", "f", "f", "l", "e", "-", "a", "l", "b", "u", "m", "/", "%", "2", "F", "l", "i", "b", "r", "a", "r", "y", "%", "2", "F", "m", "e", "t", "a", "d", "a", "t", "a", "%", "2", "F", "7", "%", "2", "F", "c", "h", "i", "l", "d", "r", "e", "n">>,
   <<"p", "l", "e", "x", "/", "s", "h", "u", "f", "f", "l", "e", "-", "p", "l", "a", "y", "l", "i", "s", "t", "/", "_", "_", "p", "l", "a", "y", "l", "i", "s", "t", "s", "_", "_", "3", "_", "_", "i", "t", "e", "m", "s">>,
   <<"p", "l", "e", "x", "/", "a", "l", "b", "u", "m", "/", "%", "2", "F", "l", "i", "b", "r", "a", "r", "y", "%", "2", "F", "m", "e", "t", "a", "d", "a", "t", "a", "%", "2", "F", "7", "%", "2", "F", "c", "h", "i", "l", "d", "r", "e", "n">>,
   <<"p", "l", "e", "x", "/", "p", "l", "a", "y", "l", "i", "s", "t", "/", "_", "_", "p", "l", "a", "y", "l", "i", "s", "t", "s", "_", "_", "3", "_", "_", "i", "t", "e", "m", "s", "@", "1">>,
   <<"p", "l", "e", "x", "/", "a", "l", "b", "u", "m", "/", "%", "2">>, <<"m", "u", "s", "i", "c", "/", "a", "l", "b", "u", "m", "/", "7">>}

IsNavigationError(result) ==
  /\ result # <<>>
  /\ result[1].state = "rejected"
  /\ result[1].name = "Error"
  /\ StartsWith(result[1].message, <<"U", "n", "k", "n", "o", "w", "n", " ", "b", "r", "o", "w", "s", "e", " ", "U", "R", "I", ":", " ">>)

\* C17 as stated: a browse call rejects with the navigation error exactly
\* for the tokens that match no route.
C17_NavigationErrorIffUnrouted ==
  [][\A u \in BrowseTokens :
       (opCall = <<>> /\ log' = <<HandleBrowseLogLine(u)>>)
       => (IsNavigationError(opResult') <=> u \notin RoutedTokens)]_vars

\* C17, amended: while the adapter holds a service, a browse call rejects
\* with the navigation error exactly for the tokens that match no route;
\* without a service it rejects every token with the not-initialized error;
\* and no call that went on to the gateway ends in a navigation error.
C17_NavigationErrorIffUnroutedWithService ==
  [][/\ \A u \in BrowseTokens :
          (opCall = <<>> /\ log' = <<HandleBrowseLogLine(u)>>)
          => IF adapter.plexService # <<>>
             THEN IsNavigationError(opResult') <=> u \notin RoutedTokens
             ELSE opResult' = <<Thrown(NotInitialized)>>
      /\ opCall # <<>> => ~IsNavigationError(opResult')]_vars

\* with a service, the token "plex/album/" (a keyed route with an empty key)
\* was rejected as unknown
C17_Witness ==
  /\ adapter.plexService # <<>>
  /\ opCall = <<>>
  /\ log = <<HandleBrowseLogLine(<<"p", "l", "e", "x", "/", "a", "l", "b", "u", "m", "/">>)>>
  /\ IsNavigationError(opResult)
  /\ opResult[1].message = <<"U", "n", "k", "n", "o", "w", "n", " ", "b", "r", "o", "w", "s", "e", " ", "U", "R", "I", ":", " ", "p", "l", "e", "x", "/", "a", "l", "b", "u", "m", "/">>

\* every http.get of the call carries the one timeout of the client
FixedTimeout == \A i \in DOMAIN gwSent : gwSent[i].timeout = DEFAULT_TIMEOUT_MS

\* the gateway operations of a call, each with the requests it issued
RequestsOf(operation) == {i \in DOMAIN gwSent : gwSent[i].operation = operation}

\* no argument of http.get occurs twice in a call
NothingReissued == \A i, j \in DOMAIN gwSent : i # j => gwSent[i] # gwSent[j]

\* a request whose timeout fired first rejected with the timed-out
\* connection error, and the call it belonged to ended with that error
TimeoutIsConnectionError ==
  (gwEvents # <<>> /\ SettlingEvents # <<>> /\ SettlingEvents[1].event = "timeout") =>
    /\ gwSettled[1].state = "rejected"
    /\ gwSettled[1].name = "PlexConnectionError"
    /\ opCall = <<>> =>
         /\ opResult # <<>>
         /\ opResult[1].state = "rejected"
         /\ opResult[1].name = "PlexConnectionError"
         /\ opResult[1].message = gwSettled[1].message

\* a settled request stays as it settled, and a call goes on to a further
\* request only after a request that resolved
SettlesOnceNoRetry ==
  /\ (gwSettled # <<>> /\ gwSent' = gwSent /\ opCall # <<>>) =>
       (gwSettled' # <<>> /\ gwSettled'[1] = gwSettled[1])
  /\ (opCall # <<>> /\ gwSent' # gwSent) =>
       (gwSettled # <<>> /\ gwSettled[1].state = "resolved" /\ Len(gwSent') = Len(gwSent) + 1)
  /\ (opCall # <<>> /\ opCall' = <<>>) => UNCHANGED gwSent

\* C18 as stated: each gateway operation issues exactly one request under the
\* fixed timeout, a timeout rejects the operation once with a connection
\* error, and nothing is re-issued.
C18_OneRequestPerOperation ==
  /\ [](/\ FixedTimeout
        /\ NothingReissued
        /\ TimeoutIsConnectionError
        /\ \A i \in DOMAIN gwSent : Cardinality(RequestsOf(gwSent[i].operation)) = 1)
  /\ [][SettlesOnceNoRetry]_vars

\* C18, amended: every gateway operation issues exactly one request, except
\* getPopularTracks, which issues two different requests one after the other
\* (the artist's metadata, then the section listing); every request runs
\* under the one fixed timeout; a timeout rejects the request and the
\* operation once with a connection error; no request is issued twice and
\* no request follows a failed one.
C18_OneRequestPerOperationButPopular ==
  /\ [](/\ FixedTimeout
        /\ NothingReissued
        /\ TimeoutIsConnectionError
        /\ \A i \in DOMAIN gwSent :
             Cardinality(RequestsOf(gwSent[i].operation)) \in
               IF gwSent[i].operation = "getPopularTracks" THEN {1, 2} ELSE {1})
  /\ [][SettlesOnceNoRetry]_vars

\* the only request of a call timed out before a response, the socket hang
\* up that follows req.destroy() rejected a second time, and the call ended
\* with the timed-out connection error
C18_Witness ==
  /\ opCall = <<>>
  /\ Len(gwSent) = 1
  /\ gwSent[1].timeout = 10000
  /\ Len(gwEvents) = 2
  /\ gwEvents[1].event = "timeout"
  /\ gwEvents[2].event = "request error"
  /\ Len(gwSettled) = 2
  /\ opResult # <<>>
  /\ opResult[1].name = "PlexConnectionError"
  /\ opResult[1].message = gwSettled[1].message
  /\ gwSettled[2].message # gwSettled[1].message

----------------------------------------------------------------------------
(* Claims about the outcomes of the login and discovery calls.             *)

\* the log lines a failed PIN creation, and a failed PIN poll or resource
\* listing, leave behind
LoginFailureLogged(err) == log = << <<"[Plex] startPlexLogin failed: ", "Error: ">> \o err >>

CheckFailureLogged(err) == log = << <<"[Plex] checkPlexLogin failed: ", "Error: ">> \o err >>

\* C19 as stated: a transport failure of a discovery call reaches the caller
\* of the login handler as an error.
C19_TransportFailurePropagates ==
  \A err \in TransportErrors :
    (LoginFailureLogged(err) \/ CheckFailureLogged(err)) => loginPromise = "rejected"

\* C19, amended: a transport failure of the PIN creation, the PIN poll or
\* the resource listing is caught in the login handler: it is logged, the
\* user is shown an error toast with the error's message ("Login failed: "
\* for the PIN creation, "Check failed: " for the poll and the listing),
\* and the promise handed to the caller resolves.
C19_TransportFailureToasted ==
  \A err \in TransportErrors :
    /\ LoginFailureLogged(err) =>
         /\ toast = <<[type |-> "error", title |-> "Plex", message |-> <<"Login failed: ">> \o err]>>
         /\ loginPromise = "resolved"
         /\ loginPc = "idle"
    /\ CheckFailureLogged(err) =>
         /\ toast = <<[type |-> "error", title |-> "Plex", message |-> <<"Check failed: ">> \o err]>>
         /\ loginPromise = "resolved"
         /\ loginPc = "idle"

\* the user had signed in, and the check failed on the network
C19_Witness ==
  /\ pinAuthorized
  /\ CheckFailureLogged(<<"getaddrinfo ENOTFOUND plex.tv">>)
  /\ toast # <<>>
  /\ toast[1].type = "error"
  /\ toast[1].message = <<"Check failed: ", "getaddrinfo ENOTFOUND plex.tv">>
  /\ loginPromise = "resolved"

NoServerFound ==
  [type |-> "warning", title |-> "Plex", message |-> <<"No Plex Media Servers found on your account">>]

\* the account lists nothing that provides a server
NothingProvidesServer == \A i \in DOMAIN resources : resources[i] = Player

\* what the end of a check leaves, by how it ended
C20_CheckEnds ==
  /\ (loginPc = "listing" /\ loginPc' = "idle" /\ log' = <<>>) =>
        /\ loginPromise' = "resolved"
        /\ IF NothingProvidesServer
           THEN toast' = <<NoServerFound>> /\ UNCHANGED plexLoginState
           ELSE toast' # <<>> /\ toast'[1].type = "success"
  /\ (loginPc \in {"polling", "listing"} /\ loginPc' = "idle" /\ log' # <<>> /\ toast' # <<>>) =>
        (toast'[1].type \in {"error", "info"} /\ toast'[1].message # NoServerFound.message)
  /\ (toast' = <<NoServerFound>>) => (loginPc = "listing" /\ NothingProvidesServer)

\* C20: when the resources listed for the account hold no server-providing
\* entry, checkPlexLogin ends with the warning "No Plex Media Servers found
\* on your account": not an error (a warning toast, the promise resolves,
\* the login state is left as it was), and different from what a failed
\* request ends with (an error toast "Check failed: ..."); with a
\* server-providing entry it ends with the success toast.
C20_NoServerFoundIsDistinct ==
  [][C20_CheckEnds]_vars

\* the account holds a player only: the check ended with the warning
C20_Witness ==
  /\ resources = <<Player>>
  /\ pinAuthorized
  /\ loginPc = "idle"
  /\ loginPromise = "resolved"
  /\ plexLoginState = FreshLogin
  /\ toast = <<NoServerFound>>

----------------------------------------------------------------------------
(* Location keys in tokens and queue URIs: what the handlers emit for a    *)
(* key, and what the decoders return for a segment handed back.            *)

\* the token of an item, a shuffle entry or a back link that leads to a keyed route
KeyedUri(route, key) == <<"p", "l", "e", "x", "/">> \o route \o <<"/">> \o encodePathSegment(key)

\* the token of the "Load more..." and "Previous page" items of a playlist page
PlaylistCursorUri(itemsKey, offset) ==
  KeyedUri(<<"p", "l", "a", "y", "l", "i", "s", "t">>, itemsKey) \o <<"@">> \o ToStr(offset)

\* trackToQueueItem: the uri of a queue item
QueueItemUri(trackId, streamKey) ==
  TrackPrefix \o trackId \o StreamInfix \o encodePathSegment(streamKey)

\* the stream key resolveStreamUrl hands to getStreamUrl; Null when it
\* returns the URI as it is
streamKeyOf(u) ==
  IF StartsWith(u, TrackPrefix) /\ IndexOfSub(u, StreamInfix) # -1
  THEN decodePathSegment(Slice(u, IndexOfSub(u, StreamInfix) + Len(StreamInfix)))
  ELSE IF StartsWith(u, LegacyPrefix)
  THEN decodePathSegment(Slice(u, Len(LegacyPrefix)))
  ELSE Null

\* the keys of the catalog's items: Plex keys begin with "/"
LocationKeys ==
  { <<"/", "l", "i", "b", "r", "a", "r", "y", "/", "m", "e", "t", "a", "d", "a", "t", "a", "/", "5", "0", "0", "/", "c", "h", "i", "l", "d", "r", "e", "n">>, <<"/", "p", "l", "a", "y", "l", "i", "s", "t", "s", "/", "9", "/", "i", "t", "e", "m", "s">>,
    <<"/", "l", "i", "b", "r", "a", "r", "y", "/", "p", "a", "r", "t", "s", "/", "2", "0", "0", "1", "/", "f", "i", "l", "e", ".", "f", "l", "a", "c">>, <<"/", "a", " ", "b">>, <<"/", "x", "?", "y", "=", "1">>, <<"/", "a", "@", "b">>, <<"/", "5", "0", "%">>,
    <<"/", "m", "y", "_", "_", "l", "i", "s", "t">>, <<"/", "t", "o", "p", "_", "/", "x">>, <<"/", "_", "a">>, <<"/", "a", "_">>, <<"/", "/">>, <<"/">>, <<"/", "a", "_", "b", "/", "c">> }

\* the places a key is embedded in
EmitSites ==
  {"artist", "album", "shuffle-album", "playlist", "shuffle-playlist", "playlist-cursor", "queue"}

SegmentInit ==
  /\ BrowseIdle
  /\ TokenIdle
  /\ LoginIdle
  /\ PluginIdle
  /\ ClassifyIdle
  /\ GatewayIdle
  /\ ShuffleIdle
  /\ PlaylistIdle
  /\ UrlIdle
  /\ PlaybackIdle
  /\ ManagerIdle
  /\ ControllerIdle
  /\ WalkIdle
  /\ LoginsIdle
  /\ sgKey \in LocationKeys
  /\ sgEmitted = <<>>
  /\ sgDecoded = <<>>

\* the handlers emit the tokens and the queue URI of an item with the key
EmitUris ==
  /\ sgEmitted = <<>>
  /\ \E offset \in {1, 100} :
       sgEmitted' = << [site \in EmitSites |->
                          CASE site = "artist" -> KeyedUri(<<"a", "r", "t", "i", "s", "t">>, sgKey)
                            [] site = "album" -> KeyedUri(<<"a", "l", "b", "u", "m">>, sgKey)
                            [] site = "shuffle-album" -> KeyedUri(<<"s", "h", "u", "f", "f", "l", "e", "-", "a", "l", "b", "u", "m">>, sgKey)
                            [] site = "playlist" -> KeyedUri(<<"p", "l", "a", "y", "l", "i", "s", "t">>, sgKey)
                            [] site = "shuffle-playlist" -> KeyedUri(<<"s", "h", "u", "f", "f", "l", "e", "-", "p", "l", "a", "y", "l", "i", "s", "t">>, sgKey)
                            [] site = "playlist-cursor" -> PlaylistCursorUri(sgKey, offset)
                            [] site = "queue" -> QueueItemUri(<<"2", "0", "0", "1">>, sgKey)] >>
  /\ UNCHANGED <<sgKey, sgDecoded>>
  /\ UNCHANGED <<outsideSegment, log>>
  /\ toast' = <<>>

\* the router decodes the segment of a token handed back: one the handlers
\* emitted, or one an older version had emitted for the same key
DecodeSegment ==
  /\ sgEmitted # <<>>
  /\ \E form \in {"percent", "legacy"}, site \in {"artist", "album", "shuffle-album", "playlist", "shuffle-playlist"} :
       LET segment == IF form = "percent" THEN KeyPart(sgEmitted[1][site])
                      ELSE ReplaceSlashes(sgKey)
       IN sgDecoded' = << [form |-> form, via |-> site, input |-> segment,
                           key |-> decodePathSegment(segment)] >>
  /\ UNCHANGED <<sgKey, sgEmitted>>
  /\ UNCHANGED <<outsideSegment, log>>
  /\ toast' = <<>>

\* resolveStreamUrl decodes the stream key of a queue item's URI: the one
\* emitted, or an older one in either format with the legacy segment
DecodeStreamKey ==
  /\ sgEmitted # <<>>
  /\ \E form \in {"percent", "legacy"}, prefix \in {"plex/track/", "plex/stream/"} :
       LET u == IF form = "percent" /\ prefix = "plex/track/" THEN sgEmitted[1]["queue"]
                ELSE IF form = "percent" THEN LegacyPrefix \o encodePathSegment(sgKey)
                ELSE IF prefix = "plex/track/"
                THEN TrackPrefix \o <<"2", "0", "0", "1">> \o StreamInfix \o ReplaceSlashes(sgKey)
                ELSE LegacyPrefix \o ReplaceSlashes(sgKey)
       IN sgDecoded' = << [form |-> form, via |-> prefix, input |-> u, key |-> streamKeyOf(u)] >>
  /\ UNCHANGED <<sgKey, sgEmitted>>
  /\ UNCHANGED <<outsideSegment, log>>
  /\ toast' = <<>>

SegmentNext == EmitUris \/ DecodeSegment \/ DecodeStreamKey

SpecSegment == SegmentInit /\ [][SegmentNext]_vars

\* the segment of an emitted URI that stands for the key
SegmentOf(site, u) ==
  CASE site = "queue" -> Slice(u, IndexOfSub(u, StreamInfix) + Len(StreamInfix))
    [] site = "playlist-cursor" -> SliceTo(KeyPart(u), 0, IndexOf(KeyPart(u), "@"))
    [] OTHER -> KeyPart(u)

LegacyUnambiguous(key) == ~Includes(key, <<"_", "_">>) /\ ~Includes(key, <<"_", "/">>)

\* C22 as stated: for every key that begins with "/", decoding its
\* percent-encoded segment and decoding its legacy segment both return the key.
C22_BothFormsDecode ==
  (sgDecoded # <<>> /\ StartsWith(sgKey, <<"/">>)) => sgDecoded[1].key = sgKey

\* C22, amended: for every key that begins with "/", decoding the
\* percent-encoded segment returns the key; decoding the legacy segment
\* returns the key exactly when the key holds neither "__" nor "_/".
C22_LegacyDecodesUnambiguousKeys ==
  (sgDecoded # <<>> /\ StartsWith(sgKey, <<"/">>)) =>
    IF sgDecoded[1].form = "percent" THEN sgDecoded[1].key = sgKey
    ELSE (sgDecoded[1].key = sgKey) <=> LegacyUnambiguous(sgKey)

\* the legacy stream URI of the part /library/parts/2001/file.flac decoded
C22_Witness ==
  /\ sgKey = <<"/", "l", "i", "b", "r", "a", "r", "y", "/", "p", "a", "r", "t", "s", "/", "2", "0", "0", "1", "/", "f", "i", "l", "e", ".", "f", "l", "a", "c">>
  /\ sgDecoded # <<>>
  /\ sgDecoded[1].form = "legacy"
  /\ sgDecoded[1].input = <<"p", "l", "e", "x", "/", "s", "t", "r", "e", "a", "m", "/", "_", "_", "l", "i", "b", "r", "a", "r", "y", "_", "_", "p", "a", "r", "t", "s", "_", "_", "2", "0", "0", "1", "_", "_", "f", "i", "l", "e", ".", "f", "l", "a", "c">>
  /\ sgDecoded[1].key = sgKey

----------------------------------------------------------------------------
(* The routes that list the tracks of an album or a playlist, with and     *)
(* without shuffling.                                                      *)

\* the most tracks a listing of the model holds
MaxTracks == 4

\* the index Math.floor(Math.random() * (i + 1)) can be, with Math.random() in [0, 1)
RandomIndexBelow(i) == 0..(i - 1)

RandomIndex(i) == 0..i

SwapOverwrites(array, i, j) == [array EXCEPT ![i + 1] = array[j + 1]]

\* [array[i], array[j]] = [array[j], array[i]], with 0-based indices
Swap(array, i, j) == [array EXCEPT ![i + 1] = array[j + 1], ![j + 1] = array[i + 1]]

RECURSIVE ShuffleFrom(_, _, _)
\* the loop of shuffleArray from index i down, with the indices it draws
ShuffleFrom(array, i, choices) ==
  IF i <= 0 THEN array
  ELSE ShuffleFrom(Swap(array, i, Head(choices)), i - 1, Tail(choices))

\* shuffleArray(array) when Math.random() yields the indices of choices
shuffleArray(array, choices) == ShuffleFrom(array, Len(array) - 1, choices)

TrackId(k) == ToStr(2000 + k)

\* trackToNavItem: the token of a track's item
TrackUri(trackId) == TrackPrefix \o trackId

AlbumTitle == <<"K", "i", "n", "d", " ", "o", "f", " ", "B", "l", "u", "e">>

\* the key of the album or playlist the call is about
ListKey(route) ==
  IF route \in {"album", "shuffle-album"} THEN <<"/", "l", "i", "b", "r", "a", "r", "y", "/", "m", "e", "t", "a", "d", "a", "t", "a", "/", "7", "/", "c", "h", "i", "l", "d", "r", "e", "n">>
  ELSE <<"/", "p", "l", "a", "y", "l", "i", "s", "t", "s", "/", "9", "/", "i", "t", "e", "m", "s">>

\* browseAlbum (with the shuffle entry offered), browseShuffleAlbum and
\* browseShufflePlaylist: the page built from the tracks the handler holds
TrackPage(route, key, tracks) ==
  [prev |-> CASE route = "album" -> <<"p", "l", "e", "x", "/", "a", "l", "b", "u", "m", "s">>
              [] route = "shuffle-album" -> KeyedUri(<<"a", "l", "b", "u", "m">>, key)
              [] route = "shuffle-playlist" -> KeyedUri(<<"p", "l", "a", "y", "l", "i", "s", "t">>, key),
   entries |-> IF route = "album" THEN <<KeyedUri(<<"s", "h", "u", "f", "f", "l", "e", "-", "a", "l", "b", "u", "m">>, key)>> ELSE <<>>,
   title |-> IF route # "album" THEN <<"S", "h", "u", "f", "f", "l", "e">>
             ELSE IF tracks = <<>> THEN <<"A", "l", "b", "u", "m">> ELSE AlbumTitle,
   items |-> [k \in 1..Len(tracks) |-> TrackUri(tracks[k])]]

IsShuffleRoute(route) == route \in {"shuffle-album", "shuffle-playlist"}

TrackRoutes == {"album", "shuffle-album", "shuffle-playlist"}

\* the listings of the catalog, in catalog order
Listings == {[k \in 1..n |-> TrackId(k)] : n \in 0..MaxTracks}

ShuffleInit ==
  /\ BrowseIdle
  /\ TokenIdle
  /\ LoginIdle
  /\ PluginIdle
  /\ ClassifyIdle
  /\ GatewayIdle
  /\ SegmentIdle
  /\ PlaylistIdle
  /\ UrlIdle
  /\ PlaybackIdle
  /\ ManagerIdle
  /\ ControllerIdle
  /\ WalkIdle
  /\ LoginsIdle
  /\ shRoute \in TrackRoutes
  /\ shInput \in Listings
  /\ shArray = shInput
  /\ shI = IF IsShuffleRoute(shRoute) THEN Len(shInput) - 1 ELSE 0
  /\ shChoices = <<>>
  /\ shPage = <<>>
  /\ shEarlier = <<>>

\* one round of the loop of shuffleArray
ShuffleStep ==
  /\ shPage = <<>>
  /\ shI > 0
  /\ \E j \in RandomIndex(shI) :
       /\ shArray' = Swap(shArray, shI, j)
       /\ shChoices' = Append(shChoices, j)
  /\ shI' = shI - 1
  /\ UNCHANGED <<shRoute, shInput, shPage, shEarlier>>
  /\ UNCHANGED <<outsideShuffle, log>>
  /\ toast' = <<>>

\* the handler maps the tracks it holds to items and returns the page
ReturnPage ==
  /\ shPage = <<>>
  /\ shI <= 0
  /\ shPage' = <<TrackPage(shRoute, ListKey(shRoute), shArray)>>
  /\ UNCHANGED <<shRoute, shInput, shArray, shI, shChoices, shEarlier>>
  /\ UNCHANGED <<outsideShuffle, log>>
  /\ toast' = <<>>

\* the client sends the same token again: same catalog, same connection
BrowseAgain ==
  /\ shPage # <<>>
  /\ shEarlier = <<>>
  /\ shEarlier' = shPage
  /\ shPage' = <<>>
  /\ shArray' = shInput
  /\ shI' = IF IsShuffleRoute(shRoute) THEN Len(shInput) - 1 ELSE 0
  /\ shChoices' = <<>>
  /\ UNCHANGED <<shRoute, shInput>>
  /\ UNCHANGED <<outsideShuffle, log>>
  /\ toast' = <<>>

ShuffleNext == ShuffleStep \/ ReturnPage \/ BrowseAgain

SpecShuffle == ShuffleInit /\ [][ShuffleNext]_vars

\* every arrangement of the items of a listing
Arrangements(array) ==
  {p \in [1..Len(array) -> {array[k] : k \in 1..Len(array)}] :
     \A a, b \in 1..Len(array) : p[a] = p[b] => a = b}

\* every sequence of indices the loop of shuffleArray can draw for n items
ChoiceSequences(n) ==
  {c \in [1..Max(n - 1, 0) -> 0..Max(n - 1, 0)] :
     \A k \in 1..Max(n - 1, 0) : c[k] \in RandomIndex(n - k)}

\* C23: when a shuffle route has shuffled its listing, the array holds
\* exactly the items of the listing, it is what shuffleArray yields for the
\* indices drawn, and every permutation of the listing is produced by the
\* same number of sequences of random choices (so with uniform choices
\* every permutation is equally likely).
C23_ShuffleUnbiased ==
  (IsShuffleRoute(shRoute) /\ shI <= 0 /\ shEarlier = <<>>) =>
    LET outcomes == {<<c, shuffleArray(shInput, c)>> : c \in ChoiceSequences(Len(shInput))}
        count(p) == Cardinality({o \in outcomes : o[2] = p})
        arrangements == Arrangements(shInput)
    IN /\ shArray \in arrangements
       /\ shArray = shuffleArray(shInput, shChoices)
       /\ \A p \in arrangements : count(p) = count(shArray)
       /\ count(shArray) >= 1

\* four tracks shuffled into the order 4, 1, 2, 3 ... by the choices 2, 0, 1
C23_Witness ==
  /\ shRoute = "shuffle-album"
  /\ Len(shInput) = 4
  /\ shI = 0
  /\ shChoices = <<2, 0, 1>>
  /\ shArray # shInput
  /\ shPage # <<>>
  /\ shPage[1].items = [k \in 1..4 |-> TrackUri(shArray[k])]

----------------------------------------------------------------------------
(* Claims about the pages of the paginated routes.                         *)

\* the token names the artists or albums route and carries no cursor
HasNoCursor(tok) ==
  /\ \E route \in Routes : StartsWith(tok, RouteUri(route))
  /\ IndexOf(tok, "@") = -1

\* C25: an artists or albums token with no cursor (with or without a sort
\* directive) yields the page of the first library of the catalog, from
\* offset 0, fetched at the configured page size; over a catalog with no
\* library it yields the empty page.
C25_NoCursorStartsFirstCollection ==
  HasNoCursor(uri) =>
    IF libraries = <<>> THEN page.status = "empty"
    ELSE /\ page.status = "ok"
         /\ page.libraryKey = libraries[1].id
         /\ page.offset = 0
         /\ page.limit = pageSize
         /\ page.count = Min(pageSize, libraries[1].size)
         /\ page.totalSize = libraries[1].size

\* plex/albums over two libraries, the first larger than a page
C25_Witness ==
  /\ uri = AlbumsUri
  /\ Len(libraries) = 2
  /\ libraries[1].size > pageSize
  /\ page.status = "ok"
  /\ page.libraryKey = LibId(1)
  /\ page.offset = 0
  /\ page.count = pageSize

----------------------------------------------------------------------------
(* Browsing a playlist page by page.                                       *)

\* _handleBrowseUri, playlist route: the key and the offset handed to
\* browsePlaylist; the key is Null when decodeURIComponent throws
PlaylistRoute(u) ==
  LET raw == KeyPart(u)
      atIndex == IndexOf(raw, "@")
  IN IF atIndex = -1 THEN [itemsKey |-> decodePathSegment(raw), offset |-> 0]
     ELSE [itemsKey |-> decodePathSegment(SliceTo(raw, 0, atIndex)),
           offset |-> OrZero(ParseInt(Slice(raw, atIndex + 1)))]

\* PlexService.getPlaylistTracksPaginated over a playlist of size tracks: the
\* server returns the tracks [offset, offset + limit) and, when it reports
\* one, the total size; otherwise the size of what it returned stands in
getPlaylistTracksPaginated(size, offset, limit, reportsTotal) ==
  LET count == Max(0, Min(limit, size - offset))
  IN [items |-> [k \in 1..count |-> TrackId(offset + k)],
      totalSize |-> IF reportsTotal THEN size ELSE count,
      offset |-> offset]

PlaylistPrevUriAlways(itemsKey, offset, step) ==
  IF Max(0, offset - step) = 0 THEN KeyedUri(<<"p", "l", "a", "y", "l", "i", "s", "t">>, itemsKey)
  ELSE PlaylistCursorUri(itemsKey, Max(0, offset - step))

\* browsePlaylist: the token of the "Previous page" item, Null when the page has none
PlaylistPrevUri(itemsKey, offset, step) ==
  IF offset > 0
  THEN (IF Max(0, offset - step) = 0 THEN KeyedUri(<<"p", "l", "a", "y", "l", "i", "s", "t">>, itemsKey)
        ELSE PlaylistCursorUri(itemsKey, Max(0, offset - step)))
  ELSE Null

PlaylistMoreUriUpToTotal(itemsKey, nextOffset, totalSize) ==
  IF nextOffset <= totalSize THEN PlaylistCursorUri(itemsKey, nextOffset) ELSE Null

\* browsePlaylist: the token of the "Load more..." item, Null when the page has none
PlaylistMoreUri(itemsKey, nextOffset, totalSize) ==
  IF nextOffset < totalSize THEN PlaylistCursorUri(itemsKey, nextOffset) ELSE Null

\* browsePlaylist: the page for the result of the service
browsePlaylist(itemsKey, offset, options, result) ==
  [itemsKey |-> itemsKey, offset |-> offset, limit |-> options.pageSize,
   count |-> Len(result.items), totalSize |-> result.totalSize,
   prev |-> PlaylistPrevUri(itemsKey, offset, options.pageSize),
   shuffle |-> IF options.shuffleEnabled /\ offset = 0
               THEN KeyedUri(<<"s", "h", "u", "f", "f", "l", "e", "-", "p", "l", "a", "y", "l", "i", "s", "t">>, itemsKey) ELSE Null,
   items |-> [k \in 1..Len(result.items) |-> TrackUri(result.items[k])],
   more |-> PlaylistMoreUri(itemsKey, offset + Len(result.items), result.totalSize),
   back |-> <<"p", "l", "e", "x", "/", "p", "l", "a", "y", "l", "i", "s", "t", "s">>]

PlaylistKeys == { <<"/", "p", "l", "a", "y", "l", "i", "s", "t", "s", "/", "9", "/", "i", "t", "e", "m", "s">>, <<"/", "p", "l", "a", "y", "l", "i", "s", "t", "s", "/", "5", "0", "0", "1", "/", "i", "t", "e", "m", "s">> }

PlaylistInit ==
  /\ BrowseIdle
  /\ TokenIdle
  /\ LoginIdle
  /\ PluginIdle
  /\ ClassifyIdle
  /\ GatewayIdle
  /\ SegmentIdle
  /\ ShuffleIdle
  /\ UrlIdle
  /\ PlaybackIdle
  /\ ManagerIdle
  /\ ControllerIdle
  /\ WalkIdle
  /\ LoginsIdle
  /\ plKey \in PlaylistKeys
  /\ plSize \in 0..MaxTracks
  /\ plOptions \in {[pageSize |-> n, shuffleEnabled |-> b] : n \in PageSizes \cup {2}, b \in BOOLEAN}
  /\ plUri = <<>>
  /\ plPage = <<>>

\* handleBrowseUri(u) for a playlist token, up to the page
SubmitPlaylist(u) ==
  /\ plKey # <<>>
  /\ \E reportsTotal \in BOOLEAN :
       LET route == PlaylistRoute(u)
           result == getPlaylistTracksPaginated(plSize, route.offset, plOptions.pageSize, reportsTotal)
       IN /\ route.itemsKey = plKey
          /\ plPage' = <<browsePlaylist(route.itemsKey, route.offset, plOptions, result)>>
  /\ plUri' = u
  /\ log' = <<HandleBrowseLogLine(u)>>
  /\ UNCHANGED <<plKey, plSize, plOptions>>
  /\ UNCHANGED outsidePlaylist
  /\ toast' = <<>>

\* the client opens the playlist from the list of playlists
OpenPlaylist == SubmitPlaylist(KeyedUri(<<"p", "l", "a", "y", "l", "i", "s", "t">>, plKey))

\* the client follows the page's "Load more..." item
FollowPlaylistMore == plPage # <<>> /\ plPage[1].more # Null /\ SubmitPlaylist(plPage[1].more)

\* the client follows the page's "Previous page" item
FollowPlaylistPrev == plPage # <<>> /\ plPage[1].prev # Null /\ SubmitPlaylist(plPage[1].prev)

\* the client re-submits a token it kept: any cursor the plugin can have
\* emitted for the playlist, which may have shrunk since
FollowPlaylistBookmark ==
  \E o \in 0..(MaxTracks + 1) : SubmitPlaylist(PlaylistCursorUri(plKey, o))

PlaylistNext == OpenPlaylist \/ FollowPlaylistMore \/ FollowPlaylistPrev \/ FollowPlaylistBookmark

SpecPlaylist == PlaylistInit /\ [][PlaylistNext]_vars

\* the paginated routes together: artists and albums over a catalog of
\* libraries, or the pages of a playlist
PagingInit == BrowseInit \/ PlaylistInit

\* the two sides share no state: a behaviour follows one of them
PagingNext ==
  \/ plKey = <<>> /\ BrowseNext
  \/ PlaylistNext

SpecPaging == PagingInit /\ [][PagingNext]_vars

\* C26: a page of artists, of albums or of playlist items holds a "Previous
\* page" item if and only if the offset of the incoming token is greater
\* than 0.
C26_PrevIffOffsetPositive ==
  /\ page.status \in {"ok", "empty"} =>
        (page.prev # Null <=> parsePaginationUri(uri).offset > 0)
  /\ plPage # <<>> =>
        (plPage[1].prev # Null <=> PlaylistRoute(plUri).offset > 0)

\* the third page of a playlist, at page size 1: its previous page is the second
C26_Witness ==
  /\ plOptions.pageSize = 1
  /\ plPage # <<>>
  /\ plUri = PlaylistCursorUri(plKey, 2)
  /\ plPage[1].count = 1
  /\ plPage[1].prev = PlaylistCursorUri(plKey, 1)

\* C27: a playlist page at offset o that returns n items with total size T
\* holds a "Load more..." token exactly when o + n < T; the token is that of
\* the same playlist at offset o + n, never one of another collection.
C27_PlaylistLoadMore ==
  plPage # <<>> =>
    LET o == PlaylistRoute(plUri).offset
        n == Len(plPage[1].items)
        T == plPage[1].totalSize
    IN /\ plPage[1].more # Null <=> o + n < T
       /\ plPage[1].more # Null =>
            /\ plPage[1].more = <<"p", "l", "e", "x", "/", "p", "l", "a", "y", "l", "i", "s", "t", "/">> \o encodeURIComponent(plKey) \o <<"@">> \o ToStr(o + n)
            /\ PlaylistRoute(plPage[1].more).itemsKey = plKey
            /\ PlaylistRoute(plPage[1].more).offset = o + n

\* the first page of a playlist of four tracks at page size 2
C27_Witness ==
  /\ plKey = <<"/", "p", "l", "a", "y", "l", "i", "s", "t", "s", "/", "5", "0", "0", "1", "/", "i", "t", "e", "m", "s">>
  /\ plSize = 4
  /\ plOptions.pageSize = 2
  /\ plUri = <<"p", "l", "e", "x", "/", "p", "l", "a", "y", "l", "i", "s", "t", "/", "%", "2", "F", "p", "l", "a", "y", "l", "i", "s", "t", "s", "%", "2", "F", "5", "0", "0", "1", "%", "2", "F", "i", "t", "e", "m", "s">>
  /\ plPage # <<>>
  /\ plPage[1].count = 2
  /\ plPage[1].totalSize = 4
  /\ plPage[1].more = <<"p", "l", "e", "x", "/", "p", "l", "a", "y", "l", "i", "s", "t", "/", "%", "2", "F", "p", "l", "a", "y", "l", "i", "s", "t", "s", "%", "2", "F", "5", "0", "0", "1", "%", "2", "F", "i", "t", "e", "m", "s", "@", "2">>

----------------------------------------------------------------------------
(* The URL builders of the stream resolver.                                *)

buildResourceUrlAlwaysQuestion(connection, path) ==
  (IF connection.https THEN Https ELSE Http) \o <<":", "/", "/">> \o connection.host
  \o <<":">> \o ToStr(connection.port) \o path \o <<"?">>
  \o XPlexToken \o encodeURIComponent(connection.token)

\* stream-resolver: buildResourceUrl
buildResourceUrl(connection, path) ==
  (IF connection.https THEN Https ELSE Http) \o <<":", "/", "/">> \o connection.host
  \o <<":">> \o ToStr(connection.port) \o path
  \o (IF Includes(path, <<"?">>) THEN <<"&">> ELSE <<"?">>)
  \o XPlexToken \o encodeURIComponent(connection.token)

UrlConnections ==
  {[host |-> h, port |-> 32400, token |-> t, https |-> s] :
     h \in { <<"1", "9", "2", ".", "1", "6", "8", ".", "1", ".", "1", "0">>, <<"p", "l", "e", "x", ".", "e", "x", "a", "m", "p", "l", "e", ".", "o", "r", "g">> },
     t \in { <<"a", "b", "c", "1", "2", "3">>, <<"a", "&", "b", "=", "c">> },
     s \in BOOLEAN}

\* stream keys and artwork paths, with and without a query string
UrlPaths ==
  { <<"/", "l", "i", "b", "r", "a", "r", "y", "/", "p", "a", "r", "t", "s", "/", "2", "0", "0", "1", "/", "f", "i", "l", "e", ".", "f", "l", "a", "c">>, <<"/", "l", "i", "b", "r", "a", "r", "y", "/", "p", "a", "r", "t", "s", "/", "2", "0", "0", "1", "/", "f", "i", "l", "e", ".", "f", "l", "a", "c", "?", "x", "=", "1">>,
    <<"/", "l", "i", "b", "r", "a", "r", "y", "/", "m", "e", "t", "a", "d", "a", "t", "a", "/", "7", "/", "t", "h", "u", "m", "b", "/", "1">>, <<"/", "p", "h", "o", "t", "o", "/", ":", "/", "t", "r", "a", "n", "s", "c", "o", "d", "e", "?", "u", "r", "l", "=", "/", "t", "&", "w", "i", "d", "t", "h", "=", "2">>,
    <<"/", "a", "?">>, <<"?", "x", "=", "1">>, <<"/", "a", "?", "b", "?", "c">>, <<>> }

UrlInit ==
  /\ BrowseIdle
  /\ TokenIdle
  /\ LoginIdle
  /\ PluginIdle
  /\ ClassifyIdle
  /\ GatewayIdle
  /\ SegmentIdle
  /\ ShuffleIdle
  /\ PlaylistIdle
  /\ PlaybackIdle
  /\ ManagerIdle
  /\ ControllerIdle
  /\ WalkIdle
  /\ LoginsIdle
  /\ urInput \in {<<[builder |-> b, connection |-> c, path |-> p]>> :
                    b \in {"buildStreamUrl", "buildResourceUrl"}, c \in UrlConnections, p \in UrlPaths}
  /\ urUrl = <<>>

\* PlexService.getStreamUrl(streamKey): direct play
GetStreamUrl ==
  /\ urUrl = <<>>
  /\ urInput[1].builder = "buildStreamUrl"
  /\ urUrl' = <<buildStreamUrl(urInput[1].connection, urInput[1].path)>>
  /\ UNCHANGED urInput
  /\ UNCHANGED <<outsideUrl, log>>
  /\ toast' = <<>>

\* PlexService.getArtworkUrl(path)
GetArtworkUrl ==
  /\ urUrl = <<>>
  /\ urInput[1].builder = "buildResourceUrl"
  /\ urUrl' = <<buildResourceUrl(urInput[1].connection, urInput[1].path)>>
  /\ UNCHANGED urInput
  /\ UNCHANGED <<outsideUrl, log>>
  /\ toast' = <<>>

UrlNext == GetStreamUrl \/ GetArtworkUrl

SpecUrl == UrlInit /\ [][UrlNext]_vars

----------------------------------------------------------------------------
(* The adapter between onStop and the next configure: browse, explode,     *)
(* search and goto.                                                         *)

\* _search up to its await: requireService(), then PlexService.search sends
\* the three searches of Promise.all
beginSearch(service, query) ==
  IF service = <<>> THEN [requests |-> <<>>, result |-> <<Thrown(NotInitialized)>>]
  ELSE [requests |->
          <<HttpGet(service[1], "searchTracks", <<"/", "s", "e", "a", "r", "c", "h", "?", "t", "y", "p", "e", "=", "1", "0", "&", "q", "u", "e", "r", "y", "=">> \o encodeURIComponent(query)),
            HttpGet(service[1], "searchAlbums", <<"/", "s", "e", "a", "r", "c", "h", "?", "t", "y", "p", "e", "=", "9", "&", "q", "u", "e", "r", "y", "=">> \o encodeURIComponent(query)),
            HttpGet(service[1], "searchArtists", <<"/", "s", "e", "a", "r", "c", "h", "?", "t", "y", "p", "e", "=", "8", "&", "q", "u", "e", "r", "y", "=">> \o encodeURIComponent(query))>>,
        result |-> <<>>]

\* _goto up to its await: requireService(), the match of
\* /^plex\/track\/(\d+)\//, then getTrackBrowseKeys asks for the track
beginGoto(service, data) ==
  LET match == MatchFrom(data.uri, 1, TrackPrefix \o <<"D+", "/">>)
  IN IF service = <<>> THEN [requests |-> <<>>, result |-> <<Thrown(NotInitialized)>>]
     ELSE IF ~match.ok
     THEN [requests |-> <<>>,
           result |-> <<Thrown(BuiltinError("Error",
                          <<"C", "a", "n", "n", "o", "t", " ", "n", "a", "v", "i", "g", "a", "t", "e", ":", " ", "t", "r", "a", "c", "k", " ", "U", "R", "I", " ", "d", "o", "e", "s", " ", "n", "o", "t", " ", "c", "o", "n", "t", "a", "i", "n", " ", "a", " ", "t", "r", "a", "c", "k", " ", "I", "D", " ", "(", "u", "r", "i", "=">> \o data.uri \o <<")">>))>>]
     ELSE [requests |-> <<HttpGet(service[1], "getTrackMetadata",
                                  <<"/", "l", "i", "b", "r", "a", "r", "y", "/", "m", "e", "t", "a", "d", "a", "t", "a", "/">> \o encodeURIComponent(match.caps[1]))>>,
           result |-> <<>>]

\* PlexService.getTrackBrowseKeys after its await: the error it throws, or
\* the two keys
getTrackBrowseKeys(trackId, raw) ==
  LET suffix == <<"/", "c", "h", "i", "l", "d", "r", "e", "n">>
      toChildrenPath(key) ==
        IF Len(key) >= Len(suffix) /\ SubSeq(key, Len(key) - Len(suffix) + 1, Len(key)) = suffix
        THEN key ELSE key \o suffix
  IN IF raw.size = 0
     THEN [error |-> <<BuiltinError("Error", <<"T", "r", "a", "c", "k", " ", "n", "o", "t", " ", "f", "o", "u", "n", "d", ":", " ">> \o trackId)>>,
           albumBrowseKey |-> <<>>, artistBrowseKey |-> <<>>]
     ELSE [error |-> <<>>,
           albumBrowseKey |-> toChildrenPath(raw.parentKey),
           artistBrowseKey |-> toChildrenPath(raw.grandparentKey)]

\* what the user types into the search box
Queries == { <<"r", "a", "d", "i", "o", "h", "e", "a", "d">>, <<"a", "&", "b">> }

\* what the "go to album" and "go to artist" buttons hand over: the playing
\* track's URI, or the URI of something that is not a track of this plugin
GotoData ==
  {[type |-> t, uri |-> u] :
     t \in { <<"a", "l", "b", "u", "m">>, <<"a", "r", "t", "i", "s", "t">> },
     u \in {QueueItemUri(<<"2", "0", "0", "1">>, <<"/", "l", "i", "b", "r", "a", "r", "y", "/", "p", "a", "r", "t", "s", "/", "2", "0", "0", "1", "/", "f", "i", "l", "e", ".", "f", "l", "a", "c">>), <<"p", "l", "e", "x", "/", "a", "l", "b", "u", "m", "/", "x">>}}

\* the single-item metadata the catalog answers a goto with
TrackEnvelopes ==
  {[size |-> 0, parentKey |-> <<>>, grandparentKey |-> <<>>],
   [size |-> 1, parentKey |-> <<"/", "l", "i", "b", "r", "a", "r", "y", "/", "m", "e", "t", "a", "d", "a", "t", "a", "/", "7">>,
    grandparentKey |-> <<"/", "l", "i", "b", "r", "a", "r", "y", "/", "m", "e", "t", "a", "d", "a", "t", "a", "/", "5", "/", "c", "h", "i", "l", "d", "r", "e", "n">>]}

\* the errors a catalog request can be rejected with
CatalogFailures(client) == {FailedToConnect(client), TimedOut(client), PlexAuthError}

\* search(query); the three requests are awaited together, and their
\* events are not followed one by one
Search ==
  \E query \in Queries :
    LET b == beginSearch(adapter.plexService, query)
    IN /\ opCall = <<>>
       /\ log' = << <<"[Plex] search: ">> \o query >>
       /\ IF b.result # <<>>
          THEN /\ opCall' = <<>>
               /\ opResult' = <<jsPromiseToKew(b.result[1])>>
               /\ gwPhase' = "idle"
          ELSE /\ opCall' = <<[entry |-> "search", uri |-> query, route |-> "search",
                               client |-> adapter.plexService[1]]>>
               /\ opResult' = <<>>
               /\ gwPhase' = "awaiting"
       /\ gwSent' = b.requests
       /\ gwEvents' = <<>>
       /\ gwSettled' = <<>>
       /\ UNCHANGED <<browseVars, tokenVars, classifyVars, loginVars, pluginVars, unitVars>>
       /\ toast' = <<>>

\* goto(data)
Goto ==
  \E data \in GotoData :
    LET b == beginGoto(adapter.plexService, data)
    IN /\ opCall = <<>>
       /\ log' = << <<"[Plex] goto: ">> \o data.type >>
       /\ IF b.result # <<>>
          THEN /\ opCall' = <<>>
               /\ opResult' = <<jsPromiseToKew(b.result[1])>>
               /\ gwPhase' = "idle"
          ELSE /\ opCall' = <<[entry |-> "goto", uri |-> data.uri, route |-> "goto",
                               client |-> adapter.plexService[1], type |-> data.type]>>
               /\ opResult' = <<>>
               /\ gwPhase' = "awaiting"
       /\ gwSent' = b.requests
       /\ gwEvents' = <<>>
       /\ gwSettled' = <<>>
       /\ UNCHANGED <<browseVars, tokenVars, classifyVars, loginVars, pluginVars, unitVars>>
       /\ toast' = <<>>

\* _search after Promise.all settled: the first rejection is rethrown, or
\* one section for every kind that has results
SearchSettles ==
  /\ opCall # <<>>
  /\ opCall[1].entry = "search"
  /\ \E outcome \in {Thrown(e) : e \in CatalogFailures(opCall[1].client)}
                    \cup {Returned((IF tracks THEN << <<"P", "l", "e", "x", " ", "T", "r", "a", "c", "k", "s">> >> ELSE <<>>)
                                   \o (IF artists THEN << <<"P", "l", "e", "x", " ", "A", "r", "t", "i", "s", "t", "s">> >> ELSE <<>>)
                                   \o (IF albums THEN << <<"P", "l", "e", "x", " ", "A", "l", "b", "u", "m", "s">> >> ELSE <<>>)) :
                            tracks \in BOOLEAN, artists \in BOOLEAN, albums \in BOOLEAN} :
       opResult' = <<jsPromiseToKew(outcome)>>
  /\ opCall' = <<>>
  /\ gwPhase' = "idle"
  /\ log' = <<>>
  /\ UNCHANGED <<gwSent, gwEvents, gwSettled>>
  /\ UNCHANGED <<browseVars, tokenVars, classifyVars, loginVars, pluginVars, unitVars>>
  /\ toast' = <<>>

\* _goto after its await: a rejection or a missing track is rethrown;
\* otherwise the call goes on in _handleBrowseUri, which asks for the
\* service again, and settles as that browse call settles
GotoResumes ==
  /\ opCall # <<>>
  /\ opCall[1].entry = "goto"
  /\ \E failure \in {<<e>> : e \in CatalogFailures(opCall[1].client)} \cup {<<>>}, raw \in TrackEnvelopes :
       LET trackId == MatchFrom(opCall[1].uri, 1, TrackPrefix \o <<"D+", "/">>).caps[1]
           keys == getTrackBrowseKeys(trackId, raw)
           u == IF opCall[1].type = <<"a", "l", "b", "u", "m">> THEN KeyedUri(<<"a", "l", "b", "u", "m">>, keys.albumBrowseKey)
                ELSE KeyedUri(<<"a", "r", "t", "i", "s", "t">>, keys.artistBrowseKey)
           b == Begin(adapter.plexService, "browse", u, pageSize)
       IN IF failure # <<>> \/ keys.error # <<>>
          THEN /\ opResult' = <<jsPromiseToKew(Thrown(IF failure # <<>> THEN failure[1] ELSE keys.error[1]))>>
               /\ opCall' = <<>>
               /\ gwPhase' = "idle"
               /\ UNCHANGED gwSent
          ELSE IF b.request = <<>>
          THEN /\ opResult' = <<jsPromiseToKew(b.result[1])>>
               /\ opCall' = <<>>
               /\ gwPhase' = "idle"
               /\ UNCHANGED gwSent
          ELSE /\ opResult' = <<>>
               /\ opCall' = <<[entry |-> "browse", uri |-> u, route |-> BrowseRoute(u),
                               client |-> adapter.plexService[1]]>>
               /\ gwPhase' = "sent"
               /\ gwSent' = gwSent \o b.request
  /\ log' = <<>>
  /\ UNCHANGED <<gwEvents, gwSettled>>
  /\ UNCHANGED <<browseVars, tokenVars, classifyVars, loginVars, pluginVars, unitVars>>
  /\ toast' = <<>>

\* the settings page is saved again with another server
Reconfigure ==
  \E data \in {form \in SettingsForms : ~form.https} : saveConfig(data)

LifecycleInit == GatewayInit

LifecycleNext ==
  \/ HandleBrowseUri
  \/ ExplodeUri
  \/ Search
  \/ Goto
  \/ ResponseArrives
  \/ BodyEnds
  \/ CallResumes
  \/ SearchSettles
  \/ GotoResumes
  \/ OnStart
  \/ OnStop
  \/ Reconfigure

SpecLifecycle == LifecycleInit /\ [][LifecycleNext]_vars

\* the adapter holds no service
ServiceDropped == adapter.plexService = <<>>

\* the call settled with requireService's error
RejectedAsNotInitialized(result) ==
  /\ result # <<>>
  /\ result[1].state = "rejected"
  /\ result[1].name = "Error"
  /\ StartsWith(result[1].message, <<"P", "l", "e", "x", "S", "e", "r", "v", "i", "c", "e", " ", "n", "o", "t", " ", "i", "n", "i", "t", "i", "a", "l", "i", "z", "e", "d">>)

\* one of the four operations is called: each logs its name first
CatalogOperationCalled ==
  /\ log' # <<>>
  /\ log'[1][1] \in {"[Plex] handleBrowseUri: ", "[Plex] explodeUri: ", "[Plex] search: ", "[Plex] goto: "}

C29_Step ==
  /\ log' = << <<"[Plex] onStop">> >> => ServiceDropped'
  /\ (ServiceDropped /\ CatalogOperationCalled)
       => /\ RejectedAsNotInitialized(opResult')
          /\ opCall' = <<>>
          /\ gwSent' = <<>>
  /\ (ServiceDropped /\ ~ServiceDropped') => Reconfigure
  /\ (~ServiceDropped /\ CatalogOperationCalled) => ~RejectedAsNotInitialized(opResult')

\* C29: onStop leaves the adapter without a service; while it has none,
\* every browse (the root included), explode, search and goto call is
\* rejected at once with the "PlexService not initialized" error and sends
\* no catalog request; only a new configuration gives the adapter a service
\* again, and from then on no call is rejected with that error.
C29_RejectsUntilConfigured == [][C29_Step]_vars

\* a goto was called after onStop, was rejected and sent nothing
C29_Witness ==
  /\ ~started
  /\ ServiceDropped
  /\ log # <<>>
  /\ log[1][1] = "[Plex] goto: "
  /\ RejectedAsNotInitialized(opResult)
  /\ opCall = <<>>
  /\ gwSent = <<>>

----------------------------------------------------------------------------
(* Playback: the commands clearAddPlayTrack sends to the audio daemon.     *)

\* sendMpdCommand(command, [])
MpdCommand(command) == [command |-> command, parameters |-> <<>>]

\* mpdAddTags: the three commands of its sendMpdCommandArray
TagCommands(songId, track) ==
  <<[command |-> <<"a", "d", "d", "t", "a", "g", "i", "d">>, parameters |-> <<ToStr(songId), <<"t", "i", "t", "l", "e">>, track.name>>],
    [command |-> <<"a", "d", "d", "t", "a", "g", "i", "d">>, parameters |-> <<ToStr(songId), <<"a", "l", "b", "u", "m">>, track.album>>],
    [command |-> <<"a", "d", "d", "t", "a", "g", "i", "d">>, parameters |-> <<ToStr(songId), <<"a", "r", "t", "i", "s", "t">>, track.artist>>]>>

\* one await of _clearAddPlayTrack: what is awaited next (pc), the commands
\* sent for it (batch), whether setConsumeUpdateService ran before they were
\* sent (consume), and how the call settled if it did (result)
Turn(pc, batch, consume, result) ==
  [pc |-> pc, batch |-> batch, consume |-> consume, result |-> result]

\* the end of _clearAddPlayTrack: consume mode, then play
PlayNow == Turn("play", <<MpdCommand(<<"p", "l", "a", "y">>)>>, TRUE, <<>>)

clearAddPlayResumesAddsAlways(pc, answer, track, xfade, streamUrl) ==
  IF ~answer.ok /\ pc # "load" THEN Turn("done", <<>>, FALSE, <<"rejected">>)
  ELSE CASE pc = "stop" -> Turn("clear", <<MpdCommand(<<"c", "l", "e", "a", "r">>)>>, FALSE, <<>>)
         [] pc = "clear" -> Turn("crossfade", <<MpdCommand(<<"c", "r", "o", "s", "s", "f", "a", "d", "e", " ">> \o ToStr(xfade))>>, FALSE, <<>>)
         [] pc = "crossfade" ->
              Turn("load", <<MpdCommand(<<"l", "o", "a", "d", " ">> \o <<"\"">> \o streamUrl \o <<"\"">>)>>, FALSE, <<>>)
         [] pc = "load" ->
              Turn("addid", <<MpdCommand(<<"a", "d", "d", "i", "d", " ">> \o <<"\"">> \o streamUrl \o <<"\"">>)>>, FALSE, <<>>)
         [] pc = "addid" ->
              IF answer.id # <<>> THEN Turn("tags", TagCommands(answer.id[1], track), FALSE, <<>>)
              ELSE PlayNow
         [] pc = "tags" -> PlayNow
         [] pc = "play" -> Turn("done", <<>>, FALSE, <<"resolved">>)

\* _clearAddPlayTrack after the await of pc settled with answer
clearAddPlayResumes(pc, answer, track, xfade, streamUrl) ==
  IF ~answer.ok /\ pc # "load" THEN Turn("done", <<>>, FALSE, <<"rejected">>)
  ELSE CASE pc = "stop" -> Turn("clear", <<MpdCommand(<<"c", "l", "e", "a", "r">>)>>, FALSE, <<>>)
         [] pc = "clear" -> Turn("crossfade", <<MpdCommand(<<"c", "r", "o", "s", "s", "f", "a", "d", "e", " ">> \o ToStr(xfade))>>, FALSE, <<>>)
         [] pc = "crossfade" ->
              Turn("load", <<MpdCommand(<<"l", "o", "a", "d", " ">> \o <<"\"">> \o streamUrl \o <<"\"">>)>>, FALSE, <<>>)
         [] pc = "load" ->
              IF answer.ok THEN PlayNow
              ELSE Turn("addid", <<MpdCommand(<<"a", "d", "d", "i", "d", " ">> \o <<"\"">> \o streamUrl \o <<"\"">>)>>, FALSE, <<>>)
         [] pc = "addid" ->
              IF answer.id # <<>> THEN Turn("tags", TagCommands(answer.id[1], track), FALSE, <<>>)
              ELSE PlayNow
         [] pc = "tags" -> PlayNow
         [] pc = "play" -> Turn("done", <<>>, FALSE, <<"resolved">>)

\* queue items with the tags mpdAddTags writes
PlaybackTracks ==
  {[name |-> t.name, uri |-> t.uri, album |-> AlbumTitle, artist |-> <<"M", "i", "l", "e", "s", " ", "D", "a", "v", "i", "s">>] : t \in Tracks}

\* the crossfade options the adapter was configured with
CrossfadeOptions ==
  {[crossfadeEnabled |-> e, crossfadeDuration |-> d] : e \in BOOLEAN, d \in {5, 12}}

\* what MPD may answer the awaited command with: a rejection, or a
\* response; the response to addid may carry the Id of the new song
MpdAnswers(pc) ==
  {[ok |-> FALSE, id |-> <<>>], [ok |-> TRUE, id |-> <<>>]}
  \cup (IF pc = "addid" THEN {[ok |-> TRUE, id |-> <<0>>], [ok |-> TRUE, id |-> <<7>>]} ELSE {})

\* the answer that has not come yet
Pending == [ok |-> FALSE, id |-> <<-1>>]

Exchange(batch, answer) == [batch |-> batch, answer |-> answer]

PlaybackInit ==
  /\ BrowseIdle
  /\ TokenIdle
  /\ LoginIdle
  /\ PluginIdle
  /\ ClassifyIdle
  /\ GatewayIdle
  /\ SegmentIdle
  /\ ShuffleIdle
  /\ PlaylistIdle
  /\ UrlIdle
  /\ ManagerIdle
  /\ ControllerIdle
  /\ WalkIdle
  /\ LoginsIdle
  /\ paInput \in {<<[track |-> t, options |-> o]>> : t \in PlaybackTracks, o \in CrossfadeOptions}
  /\ paPc = "idle"
  /\ paSent = <<>>
  /\ paConsume = <<>>
  /\ paResult = <<>>

\* clearAddPlayTrack(track) up to its first await: the stream URL is
\* resolved, then stop is sent
PlayTrack ==
  /\ paPc = "idle"
  /\ log' = << <<"[Plex] clearAddPlayTrack: ">> \o paInput[1].track.name >>
  /\ IF NeedsService(paInput[1].track.uri) /\ adapter.plexService = <<>>
     THEN /\ paPc' = "done"
          /\ paResult' = <<"rejected">>
          /\ UNCHANGED paSent
     ELSE /\ paPc' = "stop"
          /\ paSent' = <<Exchange(<<MpdCommand(<<"s", "t", "o", "p">>)>>, Pending)>>
          /\ UNCHANGED paResult
  /\ UNCHANGED <<paInput, paConsume>>
  /\ UNCHANGED outsidePlayback
  /\ toast' = <<>>

\* MPD answers the awaited command and _clearAddPlayTrack runs on to its
\* next await, or to its end
MpdAnswer ==
  /\ paPc \notin {"idle", "done"}
  /\ \E answer \in MpdAnswers(paPc) :
       LET input == paInput[1]
           xfade == IF input.options.crossfadeEnabled THEN input.options.crossfadeDuration ELSE 0
           streamUrl == resolveStreamUrl(adapter.plexService[1], input.track.uri)
           turn == clearAddPlayResumes(paPc, answer, input.track, xfade, streamUrl)
           answered == [paSent EXCEPT ![Len(paSent)].answer = answer]
       IN /\ paPc' = turn.pc
          /\ paSent' = IF turn.batch = <<>> THEN answered
                       ELSE Append(answered, Exchange(turn.batch, Pending))
          /\ paConsume' = IF turn.consume THEN <<Len(paSent)>> ELSE paConsume
          /\ paResult' = turn.result
  /\ log' = <<>>
  /\ UNCHANGED paInput
  /\ UNCHANGED outsidePlayback
  /\ toast' = <<>>

PlaybackNext ==
  \/ PlayTrack
  \/ MpdAnswer

SpecPlayback == PlaybackInit /\ [][PlaybackNext]_vars

\* the first word of the commands of the i-th entry sent
SentWord(i) ==
  LET command == paSent[i].batch[1].command
  IN IF IndexOf(command, " ") = -1 THEN command ELSE SliceTo(command, 0, IndexOf(command, " "))

AnsweredOk(i) == paSent[i].answer # Pending /\ paSent[i].answer.ok

\* C30: the entries sent are, in this order, stop, clear, crossfade and
\* load, each sent after the one before it was answered; addid is sent in
\* the fifth place and only after load was rejected; the addtagid commands
\* are sent only after addid answered with a song id, and carry that id;
\* play is the last command, sent in the turn in which the consume-update
\* service was set, after load resolved or, load having failed, addid
\* resolved and the tags, if any, were written.
C30_CommandOrder ==
  LET n == Len(paSent)
      track == paInput[1].track
      xfade == IF paInput[1].options.crossfadeEnabled THEN paInput[1].options.crossfadeDuration ELSE 0
      streamUrl == resolveStreamUrl(adapter.plexService[1], track.uri)
      quoted == <<"\"">> \o streamUrl \o <<"\"">>
  IN /\ \A i \in 1..n : i < n => paSent[i].answer # Pending
     /\ n >= 1 => paSent[1].batch = <<MpdCommand(<<"s", "t", "o", "p">>)>>
     /\ n >= 2 => paSent[2].batch = <<MpdCommand(<<"c", "l", "e", "a", "r">>)>>
     /\ n >= 3 => paSent[3].batch = <<MpdCommand(<<"c", "r", "o", "s", "s", "f", "a", "d", "e", " ">> \o ToStr(xfade))>>
     /\ n >= 4 => paSent[4].batch = <<MpdCommand(<<"l", "o", "a", "d", " ">> \o quoted)>>
     /\ \A i \in 1..n : i >= 5 => SentWord(i) \in { <<"a", "d", "d", "i", "d">>, <<"a", "d", "d", "t", "a", "g", "i", "d">>, <<"p", "l", "a", "y">> }
     /\ \A i \in 1..n :
          SentWord(i) = <<"a", "d", "d", "i", "d">>
            => /\ i = 5
               /\ ~AnsweredOk(4)
               /\ paSent[i].batch = <<MpdCommand(<<"a", "d", "d", "i", "d", " ">> \o quoted)>>
     /\ \A i \in 1..n :
          SentWord(i) = <<"a", "d", "d", "t", "a", "g", "i", "d">>
            => /\ i = 6
               /\ SentWord(5) = <<"a", "d", "d", "i", "d">>
               /\ AnsweredOk(5)
               /\ paSent[5].answer.id # <<>>
               /\ paSent[i].batch = TagCommands(paSent[5].answer.id[1], track)
     /\ \A i \in 1..n :
          SentWord(i) = <<"p", "l", "a", "y">>
            => /\ i = n
               /\ i >= 5
               /\ paConsume = <<i - 1>>
               /\ AnsweredOk(i - 1)
               /\ AnsweredOk(4) \/ (SentWord(5) = <<"a", "d", "d", "i", "d">> /\ AnsweredOk(5))
               /\ (SentWord(i - 1) = <<"a", "d", "d", "i", "d">> => paSent[i - 1].answer.id = <<>>)
     /\ paConsume # <<>> => n = paConsume[1] + 1 /\ SentWord(n) = <<"p", "l", "a", "y">>
     /\ paResult = <<"resolved">> => n >= 5 /\ SentWord(n) = <<"p", "l", "a", "y">> /\ AnsweredOk(n)

\* load failed, addid returned a song id, the tags were written, and the
\* track plays
C30_Witness ==
  /\ paResult = <<"resolved">>
  /\ Len(paSent) = 7
  /\ ~AnsweredOk(4)
  /\ paSent[5].answer.id = <<7>>
  /\ SentWord(6) = <<"a", "d", "d", "t", "a", "g", "i", "d">>
  /\ paConsume = <<6>>
  /\ SentWord(7) = <<"p", "l", "a", "y">>

----------------------------------------------------------------------------
(* The playlist manager: queue, position, shuffle order and repeat mode.   *)

\* the most tracks the queue of the model holds
MaxQueue == 3

\* the PlaylistManager object
Manager == [tracks |-> pmTracks, position |-> pmPosition, shuffle |-> pmShuffle,
            repeat |-> pmRepeat, shuffleOrder |-> pmShuffleOrder]

\* array[i] with a 0-based index
ElementAt(array, i) == IF i >= 0 /\ i < Len(array) THEN array[i + 1] ELSE "undefined"

\* resolveIndex(position)
resolveIndex(pm, position) ==
  IF pm.shuffle /\ Len(pm.shuffleOrder) > 0
  THEN IF position >= 0 /\ position < Len(pm.shuffleOrder) THEN pm.shuffleOrder[position + 1] ELSE -1
  ELSE position

\* getCurrentTrack()
getCurrentTrack(pm) ==
  IF pm.position < 0 \/ pm.position >= Len(pm.tracks) THEN "null"
  ELSE ElementAt(pm.tracks, resolveIndex(pm, pm.position))

rebuildShuffleOrderKeepsPosition(pm, choices) ==
  LET n == Len(pm.tracks)
      shuffled == ShuffleFrom([i \in 1..n |-> i - 1], n - 1, choices)
      hasCurrent == pm.position >= 0 /\ pm.position < n
      currentShuffledPos == IndexOf(shuffled, resolveIndex(pm, pm.position))
  IN [pm EXCEPT !.shuffleOrder = IF hasCurrent /\ currentShuffledPos > 0
                                 THEN Swap(shuffled, 0, currentShuffledPos) ELSE shuffled]

\* rebuildShuffleOrder() when Math.random() yields the indices of choices:
\* the Fisher-Yates loop, then the current track's index is swapped to the
\* front and the position becomes 0
rebuildShuffleOrder(pm, choices) ==
  LET n == Len(pm.tracks)
      shuffled == ShuffleFrom([i \in 1..n |-> i - 1], n - 1, choices)
      hasCurrent == pm.position >= 0 /\ pm.position < n
      \* -1 stands for the undefined of an index past the old order
      currentRealIndex == IF pm.shuffle /\ Len(pm.shuffleOrder) > 0
                          THEN IF pm.position < Len(pm.shuffleOrder)
                               THEN pm.shuffleOrder[pm.position + 1] ELSE -1
                          ELSE pm.position
      currentShuffledPos == IndexOf(shuffled, currentRealIndex)
  IN [pm EXCEPT !.shuffleOrder = IF hasCurrent /\ currentShuffledPos > 0
                                 THEN Swap(shuffled, 0, currentShuffledPos) ELSE shuffled,
                !.position = IF hasCurrent THEN 0 ELSE @]

\* addTrack(track)
addTrack(pm, track, choices) ==
  LET pushed == [pm EXCEPT !.tracks = Append(@, track), !.position = IF @ = -1 THEN 0 ELSE @]
  IN IF pushed.shuffle THEN rebuildShuffleOrder(pushed, choices) ELSE pushed

\* addTracks(tracks)
addTracks(pm, tracks, choices) ==
  LET pushed == [pm EXCEPT !.tracks = @ \o tracks, !.position = IF @ = -1 THEN 0 ELSE @]
  IN IF Len(tracks) = 0 THEN pm
     ELSE IF pushed.shuffle THEN rebuildShuffleOrder(pushed, choices) ELSE pushed

\* tracks.splice(index, 1)
SpliceOne(array, index) == SubSeq(array, 1, index) \o SubSeq(array, index + 2, Len(array))

removeTrackWithoutClamp(pm, index, choices) ==
  LET spliced == SpliceOne(pm.tracks, index)
      moved == [pm EXCEPT !.tracks = spliced,
                          !.position = IF Len(spliced) = 0 THEN -1
                                       ELSE IF index < @ THEN @ - 1
                                       ELSE @]
  IN IF index < 0 \/ index >= Len(pm.tracks) THEN pm
     ELSE IF moved.shuffle THEN rebuildShuffleOrder(moved, choices) ELSE moved

\* removeTrack(index)
removeTrack(pm, index, choices) ==
  LET spliced == SpliceOne(pm.tracks, index)
      moved == [pm EXCEPT !.tracks = spliced,
                          !.position = IF Len(spliced) = 0 THEN -1
                                       ELSE IF index < @ THEN @ - 1
                                       ELSE IF index = @ /\ @ >= Len(spliced) THEN Len(spliced) - 1
                                       ELSE @]
  IN IF index < 0 \/ index >= Len(pm.tracks) THEN pm
     ELSE IF moved.shuffle THEN rebuildShuffleOrder(moved, choices) ELSE moved

\* clear()
clear(pm) == [pm EXCEPT !.tracks = <<>>, !.position = -1, !.shuffleOrder = <<>>]

\* what a navigation method leaves and returns
Moved(pm, returned) == [manager |-> pm, returned |-> returned]

\* next()
next(pm, choices) ==
  IF Len(pm.tracks) = 0 THEN Moved(pm, "null")
  ELSE IF pm.repeat = "one" THEN Moved(pm, getCurrentTrack(pm))
  ELSE IF pm.position < Len(pm.tracks) - 1
  THEN LET stepped == [pm EXCEPT !.position = @ + 1] IN Moved(stepped, getCurrentTrack(stepped))
  ELSE IF pm.repeat = "all"
  THEN LET first == [pm EXCEPT !.position = 0]
           again == IF pm.shuffle THEN rebuildShuffleOrder(first, choices) ELSE first
       IN Moved(again, getCurrentTrack(again))
  ELSE Moved(pm, "null")

\* previous()
previous(pm) ==
  IF Len(pm.tracks) = 0 THEN Moved(pm, "null")
  ELSE IF pm.repeat = "one" THEN Moved(pm, getCurrentTrack(pm))
  ELSE IF pm.position > 0
  THEN LET stepped == [pm EXCEPT !.position = @ - 1] IN Moved(stepped, getCurrentTrack(stepped))
  ELSE IF pm.repeat = "all"
  THEN LET last == [pm EXCEPT !.position = Len(pm.tracks) - 1] IN Moved(last, getCurrentTrack(last))
  ELSE Moved(pm, "null")

\* jumpTo(index)
jumpTo(pm, index) ==
  IF index < 0 \/ index >= Len(pm.tracks) THEN Moved(pm, "null")
  ELSE LET jumped == [pm EXCEPT !.position = index] IN Moved(jumped, getCurrentTrack(jumped))

\* setShuffle(enabled)
setShuffle(pm, enabled, choices) ==
  IF enabled THEN rebuildShuffleOrder([pm EXCEPT !.shuffle = TRUE], choices)
  ELSE [pm EXCEPT !.shuffle = FALSE, !.shuffleOrder = <<>>]

\* setRepeat(mode)
setRepeat(pm, mode) == [pm EXCEPT !.repeat = mode]

\* UIStateManager.computePlaylist(): getPlaylist(), getPosition(), and one
\* entry per track with isCurrentTrack: index === position
computePlaylist(pm) ==
  [index \in 1..Len(pm.tracks) |->
     [track |-> pm.tracks[index], isCurrentTrack |-> index - 1 = pm.position]]

\* the tracks a client may queue: each is queued at most once at a time
TrackPool == [k \in 1..MaxQueue |-> UpperLetters[k]]

Queued == {pmTracks[k] : k \in 1..Len(pmTracks)}

\* the next k tracks a client queues: the first of the pool not in the queue
FreshTracks(k) ==
  LET free == SelectSeq(TrackPool, LAMBDA t : t \notin Queued)
  IN SubSeq(free, 1, Min(k, Len(free)))

RepeatModes == <<"off", "all", "one">>

\* the indices a client hands to removeTrack and jumpTo
QueueIndices == -1..MaxQueue

NotWalking == [on |-> FALSE, seen |-> <<>>, done |-> FALSE]

\* the walk of a client that enables shuffle with repeat off, takes the
\* current track and calls next() until it returns null
WalkAfter(op, arg, pm, returned) ==
  IF op = "setShuffle" /\ arg = 1 /\ pm.repeat = "off"
  THEN [on |-> TRUE, done |-> FALSE,
        seen |-> IF getCurrentTrack(pm) = "null" THEN <<>> ELSE <<getCurrentTrack(pm)>>]
  ELSE IF op = "next" /\ pmWalk.on /\ ~pmWalk.done
  THEN IF returned = <<"null">> THEN [pmWalk EXCEPT !.done = TRUE]
       ELSE [pmWalk EXCEPT !.seen = @ \o returned]
  ELSE NotWalking

\* the method op(arg) leaves the manager as pm and returns returned
Called(op, arg, pm, returned) ==
  /\ pmTracks' = pm.tracks
  /\ pmPosition' = pm.position
  /\ pmShuffle' = pm.shuffle
  /\ pmRepeat' = pm.repeat
  /\ pmShuffleOrder' = pm.shuffleOrder
  /\ pmLast' = [op |-> op, arg |-> arg]
  /\ pmWalk' = WalkAfter(op, arg, pm, returned)
  /\ pmSnapshot' = <<>>
  /\ UNCHANGED <<outsideManager, log>>
  /\ toast' = <<>>

\* the draws of Math.random() a rebuild of the order of n tracks consumes
DrawsOf == [n \in 0..MaxQueue |-> ChoiceSequences(n)]

Draws(rebuilds, n) == IF rebuilds THEN DrawsOf[n] ELSE {<<>>}

ManagerInit ==
  /\ BrowseIdle
  /\ TokenIdle
  /\ LoginIdle
  /\ PluginIdle
  /\ ClassifyIdle
  /\ GatewayIdle
  /\ SegmentIdle
  /\ ShuffleIdle
  /\ PlaylistIdle
  /\ UrlIdle
  /\ PlaybackIdle
  /\ ManagerIdle
  /\ ControllerIdle
  /\ WalkIdle
  /\ LoginsIdle

AddTrack ==
  /\ Len(pmTracks) < MaxQueue
  /\ \E choices \in Draws(pmShuffle, Len(pmTracks) + 1) :
       Called("addTrack", 0, addTrack(Manager, FreshTracks(1)[1], choices), <<>>)

AddTracks ==
  \E tracks \in {<<>>, FreshTracks(2)} :
    /\ Len(pmTracks) + Len(tracks) <= MaxQueue
    /\ \E choices \in Draws(pmShuffle /\ tracks # <<>>, Len(pmTracks) + Len(tracks)) :
         Called("addTracks", 0, addTracks(Manager, tracks, choices), <<>>)

RemoveTrack ==
  \E index \in QueueIndices :
    \E choices \in Draws(pmShuffle /\ index >= 0 /\ index < Len(pmTracks), Len(pmTracks) - 1) :
      Called("removeTrack", index, removeTrack(Manager, index, choices), <<>>)

Clear == Called("clear", 0, clear(Manager), <<>>)

Next ==
  \E choices \in Draws(pmShuffle /\ pmRepeat = "all" /\ pmPosition = Len(pmTracks) - 1, Len(pmTracks)) :
    LET moved == next(Manager, choices)
    IN Called("next", 0, moved.manager, <<moved.returned>>)

Previous ==
  LET moved == previous(Manager)
  IN Called("previous", 0, moved.manager, <<moved.returned>>)

JumpTo ==
  \E index \in QueueIndices :
    LET moved == jumpTo(Manager, index)
    IN Called("jumpTo", 0, moved.manager, <<moved.returned>>)

SetShuffle ==
  \E enabled \in BOOLEAN :
    \E choices \in Draws(enabled, Len(pmTracks)) :
      Called("setShuffle", IF enabled THEN 1 ELSE 0, setShuffle(Manager, enabled, choices), <<>>)

SetRepeat ==
  \E k \in 1..3 : Called("setRepeat", 0, setRepeat(Manager, RepeatModes[k]), <<>>)

\* getUIState(): the playlist of the snapshot
GetUIState ==
  /\ pmSnapshot' = <<computePlaylist(Manager)>>
  /\ pmLast' = [op |-> "getUIState", arg |-> 0]
  /\ pmWalk' = NotWalking
  /\ UNCHANGED <<pmTracks, pmPosition, pmShuffle, pmRepeat, pmShuffleOrder>>
  /\ UNCHANGED <<outsideManager, log>>
  /\ toast' = <<>>

ManagerNext ==
  \/ AddTrack
  \/ AddTracks
  \/ RemoveTrack
  \/ Clear
  \/ Next
  \/ Previous
  \/ JumpTo
  \/ SetShuffle
  \/ SetRepeat
  \/ GetUIState

SpecManager == ManagerInit /\ [][ManagerNext]_vars

----------------------------------------------------------------------------
(* Claims about the playlist manager and the playlist of the UI snapshot.  *)

NoDuplicates(s) == \A a, b \in 1..Len(s) : s[a] = s[b] => a = b

\* C31: while a client that enabled shuffle with repeat off takes the
\* current track and calls next(), no track comes twice and every track
\* that comes is in the playlist; when next() returns null, every track of
\* the playlist has come exactly once.
C31_ShuffleWalkVisitsAll ==
  pmWalk.on =>
    /\ NoDuplicates(pmWalk.seen)
    /\ \A k \in 1..Len(pmWalk.seen) : pmWalk.seen[k] \in Queued
    /\ pmWalk.done => Len(pmWalk.seen) = Len(pmTracks)

\* shuffle was enabled in the middle of a full playlist, and the walk came
\* to its end in an order other than the playlist's
C31_Witness ==
  /\ pmWalk.on
  /\ pmWalk.done
  /\ Len(pmTracks) = MaxQueue
  /\ pmWalk.seen # pmTracks
  /\ pmWalk.seen[1] # pmTracks[1]

\* the method called in this step neither navigates nor removes the
\* current track: it adds tracks, enables shuffle, or removes another track
KeepsCurrentTrack ==
  \/ pmLast'.op \in {"addTrack", "addTracks"}
  \/ pmLast'.op = "setShuffle" /\ pmLast'.arg = 1
  \/ /\ pmLast'.op = "removeTrack"
     /\ pmLast'.arg >= 0
     /\ pmLast'.arg < Len(pmTracks)
     /\ pmTracks[pmLast'.arg + 1] # getCurrentTrack(Manager)

C32_Step ==
  (getCurrentTrack(Manager) # "null" /\ KeepsCurrentTrack)
    => getCurrentTrack(Manager)' = getCurrentTrack(Manager)

\* C32: when there is a current track, adding tracks, removing a track other
\* than the current one and enabling shuffle leave getCurrentTrack() as it
\* was, in every shuffle and repeat mode.
C32_CurrentTrackKept == [][C32_Step]_vars

\* a track was removed from a shuffled playlist that still has tracks
C32_Witness ==
  /\ pmLast.op = "removeTrack"
  /\ pmLast.arg >= 0
  /\ pmLast.arg <= Len(pmTracks)
  /\ pmShuffle
  /\ Len(pmTracks) >= 2

Marked(snapshot) == {index \in 1..Len(snapshot) : snapshot[index].isCurrentTrack}

\* C33: in the snapshot of a non-empty playlist exactly one entry is marked
\* isCurrentTrack, and its track is the one getCurrentTrack() returns.
C33_SnapshotMarksCurrent ==
  (pmSnapshot # <<>> /\ pmTracks # <<>>) =>
    /\ Cardinality(Marked(pmSnapshot[1])) = 1
    /\ \A index \in Marked(pmSnapshot[1]) :
         pmSnapshot[1][index].track = getCurrentTrack(Manager)

\* a snapshot taken after navigation in a playlist that is not shuffled
\* marks the current track
C33_Witness ==
  /\ pmSnapshot # <<>>
  /\ ~pmShuffle
  /\ pmPosition > 0
  /\ Marked(pmSnapshot[1]) = {pmPosition + 1}
  /\ pmSnapshot[1][pmPosition + 1].track = getCurrentTrack(Manager)

\* C39: position is -1 exactly when the playlist is empty; otherwise it is
\* at least 0 and below the length, and getCurrentTrack() returns a track
\* of the playlist.
C39_PositionInRange ==
  /\ pmPosition = -1 <=> pmTracks = <<>>
  /\ pmTracks # <<>> =>
       /\ pmPosition >= 0
       /\ pmPosition < Len(pmTracks)
       /\ getCurrentTrack(Manager) \in Queued

\* the last track of a shuffled playlist was removed
C39_Witness ==
  /\ pmLast.op = "removeTrack"
  /\ pmLast.arg = Len(pmTracks)
  /\ pmShuffle
  /\ pmTracks # <<>>
  /\ getCurrentTrack(Manager) \in Queued

\* ---------------------------------------------------------------------------
\* The playback controller (core/playback-controller.ts)
\* ---------------------------------------------------------------------------

\* the largest position of the audio layer in the model, in milliseconds
MaxPositionMs == 2

\* the controller's fields, with the events a call has emitted so far
Controller ==
  [state |-> ctlState, positionMs |-> ctlPositionMs,
   currentTrack |-> ctlCurrentTrack, emitted |-> <<>>]

emitStateChanged(pc) ==
  [pc EXCEPT !.emitted = Append(@,
     [event |-> "stateChanged", state |-> pc.state,
      track |-> pc.currentTrack, position |-> pc.positionMs])]

setState(pc, newState) == emitStateChanged([pc EXCEPT !.state = newState])

\* play(track); track is "undefined" for a call without an argument
play(pc, track) ==
  IF track # "undefined"
  THEN LET isNewTrack == pc.currentTrack = "null" \/ pc.currentTrack # track
           reset == IF isNewTrack THEN [pc EXCEPT !.positionMs = 0] ELSE pc
       IN setState([reset EXCEPT !.currentTrack = track], "playing")
  ELSE IF pc.state = "playing" THEN pc
  ELSE IF pc.currentTrack # "null" THEN setState(pc, "playing")
  ELSE pc

pause(pc) == IF pc.state # "playing" THEN pc ELSE setState(pc, "paused")

stop(pc) ==
  IF pc.state = "stopped" THEN pc
  ELSE setState([pc EXCEPT !.positionMs = 0, !.currentTrack = "null"], "stopped")

seek(pc, positionMs) ==
  IF pc.state = "stopped" \/ pc.currentTrack = "null" THEN pc
  ELSE emitStateChanged([pc EXCEPT !.positionMs = IF positionMs > 0 THEN positionMs ELSE 0])

onTrackEnded(pc) ==
  [pc EXCEPT !.positionMs = 0, !.currentTrack = "null", !.state = "stopped",
             !.emitted = Append(@, [event |-> "trackEnded", state |-> "stopped",
                                    track |-> "null", position |-> 0])]

onError(pc) ==
  [pc EXCEPT !.state = "stopped", !.positionMs = 0,
             !.emitted = Append(@, [event |-> "error", state |-> "stopped",
                                    track |-> pc.currentTrack, position |-> 0])]

setPosition(pc, positionMs) == [pc EXCEPT !.positionMs = positionMs]

\* the tracks handed to play(), and the positions the audio layer and the
\* user report
ControllerTracks == {"A", "B"}
PositionsMs == -1..MaxPositionMs

\* the method op leaves the controller as pc
ControllerCalled(op, pc) ==
  /\ ctlState' = pc.state
  /\ ctlPositionMs' = pc.positionMs
  /\ ctlCurrentTrack' = pc.currentTrack
  /\ ctlEmitted' = pc.emitted
  /\ ctlLast' = op
  /\ UNCHANGED <<outsideController, log>>
  /\ toast' = <<>>

ControllerInit ==
  /\ BrowseIdle
  /\ TokenIdle
  /\ LoginIdle
  /\ PluginIdle
  /\ ClassifyIdle
  /\ GatewayIdle
  /\ SegmentIdle
  /\ ShuffleIdle
  /\ PlaylistIdle
  /\ UrlIdle
  /\ PlaybackIdle
  /\ ManagerIdle
  /\ ControllerIdle
  /\ WalkIdle
  /\ LoginsIdle

Play ==
  \E track \in ControllerTracks \cup {"undefined"} :
    ControllerCalled("play", play(Controller, track))

Pause == ControllerCalled("pause", pause(Controller))

Stop == ControllerCalled("stop", stop(Controller))

Seek == \E positionMs \in PositionsMs : ControllerCalled("seek", seek(Controller, positionMs))

SetPosition ==
  \E positionMs \in PositionsMs :
    ControllerCalled("setPosition", setPosition(Controller, positionMs))

OnTrackEnded == ControllerCalled("onTrackEnded", onTrackEnded(Controller))

OnError == ControllerCalled("onError", onError(Controller))

ControllerNext ==
  \/ Play
  \/ Pause
  \/ Stop
  \/ Seek
  \/ SetPosition
  \/ OnTrackEnded
  \/ OnError

SpecController == ControllerInit /\ [][ControllerNext]_vars

\* C40: whenever the playback controller is stopped, its current track is
\* null and its position is 0, after any sequence of play, pause, stop,
\* seek, setPosition, onTrackEnded and onError.
C40_StoppedIsReset ==
  ctlState = "stopped" => (ctlCurrentTrack = "null" /\ ctlPositionMs = 0)

\* stop() has stopped a controller that was playing: track and position are
\* reset
C40_Witness ==
  /\ ctlLast = "stop"
  /\ ctlEmitted # <<>>
  /\ ctlState = "stopped"
  /\ ctlCurrentTrack = "null"
  /\ ctlPositionMs = 0

----------------------------------------------------------------------------
(* Claims about walking the pages of the artists and albums lists.         *)

\* the page the "Previous page" token of the current page resolves to
PrevPage == handleBrowseUri(page.prev, libraries, pageSize)

\* C35: the "previous" token emitted on an artists or albums page at cursor
\* {collection K, offset o > 0} resolves to a page of the same collection K
\* at offset max(0, o - pageSize), for every collection K of the catalog.
C35_PrevStaysInCollection ==
  (page.status = "ok" /\ page.offset > 0) =>
    /\ page.prev # Null
    /\ PrevPage.status = "ok"
    /\ PrevPage.route = page.route
    /\ PrevPage.libraryKey = page.libraryKey
    /\ PrevPage.offset = Max(0, page.offset - pageSize)

\* C35 witness: the page at offset 2 of the second collection with page size
\* 1; its "previous" token resolves to offset 1 of the second collection.
C35_Witness ==
  /\ page.status = "ok" /\ PagePos = 2 /\ page.offset = 2 /\ pageSize = 1
  /\ PrevPage.status = "ok"
  /\ PrevPage.libraryKey = page.libraryKey
  /\ PrevPage.offset = 1

\* The walk of C34: a client opens the artists or albums list by a token
\* without cursor and follows the "Load more..." item of each page.

\* the cursor-less tokens: the route itself, or an entry of its "Sort by" list
StartTokens ==
  {RouteUri(route) : route \in Routes}
    \cup {SortUris(route)[i] : route \in Routes, i \in 1..MaxSortChoice}

\* the walk's record of a page: pages other than item lists leave no record
Visit(pages, p) ==
  IF p.status = "ok"
  THEN Append(pages, [libraryKey |-> p.libraryKey, offset |-> p.offset, count |-> p.count])
  ELSE pages

\* the items a page lists: the items offset .. offset + count - 1 of its collection
ItemsOf(libraryKey, offset, count) ==
  [k \in 1..count |-> [collection |-> libraryKey, index |-> offset + k - 1]]

RECURSIVE ItemsListed(_)
\* the items the pages of the walk have listed, in the order listed
ItemsListed(pages) ==
  IF pages = <<>> THEN <<>>
  ELSE LET last == pages[Len(pages)]
       IN ItemsListed(SubSeq(pages, 1, Len(pages) - 1))
            \o ItemsOf(last.libraryKey, last.offset, last.count)

RECURSIVE CatalogItems(_)
\* every item of every collection, in catalog order
CatalogItems(libs) ==
  IF libs = <<>> THEN <<>>
  ELSE LET last == libs[Len(libs)]
       IN CatalogItems(SubSeq(libs, 1, Len(libs) - 1)) \o ItemsOf(last.id, 0, last.size)

RECURSIVE CollectionsVisited(_)
\* the collections of the walk's pages, each run of pages of one collection
\* counted once
CollectionsVisited(pages) ==
  IF pages = <<>> THEN <<>>
  ELSE LET front == SubSeq(pages, 1, Len(pages) - 1)
           last == pages[Len(pages)]
       IN IF front # <<>> /\ front[Len(front)].libraryKey = last.libraryKey
          THEN CollectionsVisited(front)
          ELSE Append(CollectionsVisited(front), last.libraryKey)

IsPrefix(s, t) == Len(s) <= Len(t) /\ s = SubSeq(t, 1, Len(s))

WalkInit ==
  /\ TokenIdle
  /\ LoginIdle
  /\ PluginIdle
  /\ ClassifyIdle
  /\ GatewayIdle
  /\ SegmentIdle
  /\ ShuffleIdle
  /\ PlaylistIdle
  /\ UrlIdle
  /\ PlaybackIdle
  /\ ManagerIdle
  /\ ControllerIdle
  /\ LoginsIdle
  /\ libraries \in {CatalogOf(sz) : sz \in Catalogs}
  /\ pageSize \in PageSizes
  /\ uri \in StartTokens
  /\ page = handleBrowseUri(uri, libraries, pageSize)
  /\ wkOn = TRUE
  /\ wkPages = Visit(<<>>, page)

\* The walking client follows the page's "Load more..." item; the catalog
\* stays as it is.
WalkMore ==
  /\ wkOn
  /\ page.more # Null
  /\ uri' = page.more
  /\ page' = handleBrowseUri(page.more, libraries, pageSize)
  /\ log' = <<HandleBrowseLogLine(page.more)>>
  /\ wkPages' = Visit(wkPages, page')
  /\ toast' = <<>>
  /\ UNCHANGED <<wkOn, libraries, pageSize>>
  /\ UNCHANGED <<tokenVars, classifyVars, gatewayVars, loginVars, pluginVars>>
  /\ UNCHANGED <<segmentVars, shuffleVars, playlistVars, urlVars, playbackVars,
                 managerVars, controllerVars, loginsVars>>

WalkNext == WalkMore

\* ENABLED <<WalkMore>>_vars, computed from the current state: the page
\* carries the link and following it changes the state
WalkMoreEnabled ==
  /\ wkOn
  /\ page.more # Null
  /\ LET p == handleBrowseUri(page.more, libraries, pageSize)
     IN <<page.more, p, <<HandleBrowseLogLine(page.more)>>, Visit(wkPages, p), <<>> >>
          # <<uri, page, log, wkPages, toast>>

\* the client keeps following the link for as long as a page carries one:
\* weak fairness of WalkMore, WF_vars(WalkMore), with its ENABLED written out
WalkFairness == []<>(~WalkMoreEnabled) \/ []<><<WalkMore>>_vars

SpecWalk == WalkInit /\ [][WalkNext]_vars /\ WalkFairness

\* the walk has reached a page without "Load more..." item
WalkDone == wkOn /\ page.more = Null

\* what the walk has listed so far is the beginning of the catalog, in
\* catalog order, and all of it once the walk is done
WalkInOrder ==
  wkOn =>
    /\ IsPrefix(ItemsListed(wkPages), CatalogItems(libraries))
    /\ IsPrefix(CollectionsVisited(wkPages), [i \in 1..Len(libraries) |-> libraries[i].id])
    /\ (page.more = Null =>
          /\ ItemsListed(wkPages) = CatalogItems(libraries)
          /\ CollectionsVisited(wkPages) = [i \in 1..Len(libraries) |-> libraries[i].id])

----------------------------------------------------------------------------
(* startPlexLogin and checkPlexLogin called while earlier calls still wait  *)
(* for plex.tv. Every continuation runs to completion; what interleaves are *)
(* the calls and the answers of plex.tv. The log lines are those of the     *)
(* flow above and are left out here.                                        *)

MaxPins == 2     \* PINs plex.tv hands out
MaxCalls == 2    \* calls waiting for plex.tv at one time
MaxPolls == 2    \* PIN polls issued

\* pin.authToken of an authorised PIN
PinToken(pinId) == AccountToken \o <<"-">> \o ToStr(pinId)

\* self._plexLoginState = { pinId, clientId, authUrl, servers: [] }; wrote
\* records which poll each field of the object was written from
NewLoginState(pinId) ==
  [pinId |-> pinId, authToken |-> <<>>, servers |-> <<>>, connectionOptions |-> <<>>,
   wrote |-> <<>>]

\* Mutant: the check writes to whatever self._plexLoginState is when the
\* resources arrive.
StateWrittenIsCurrent(captured, current) == current

\* var state = self._plexLoginState at the call; state.authToken = ... when
\* the resources arrive: the object written is the one captured
StateWritten(captured, current) == captured

\* what the resources request may list
ListedAccounts ==
  {<<>>, <<Player>>, <<ServerA(<<>>)>>, <<Player, ServerB(LoftConns), ServerA(<<>>)>>}

\* the call at position i has settled
Leaves(calls, i) == SubSeq(calls, 1, i - 1) \o SubSeq(calls, i + 1, Len(calls))

StartsWaiting == Cardinality({i \in DOMAIN lsCalls : lsCalls[i].kind = "start"})

LoginsInit ==
  /\ BrowseIdle
  /\ TokenIdle
  /\ LoginIdle
  /\ PluginIdle
  /\ ClassifyIdle
  /\ GatewayIdle
  /\ SegmentIdle
  /\ ShuffleIdle
  /\ PlaylistIdle
  /\ UrlIdle
  /\ PlaybackIdle
  /\ ManagerIdle
  /\ ControllerIdle
  /\ WalkIdle
  /\ LoginsIdle

\* startPlexLogin up to its request for a PIN
StartCalled ==
  /\ Len(lsCalls) < MaxCalls
  /\ Len(lsObjects) + StartsWaiting < MaxPins
  /\ lsCalls' = Append(lsCalls, [kind |-> "start", pc |-> "creating", state |-> 0, poll |-> 0])
  /\ toast' = <<>>
  /\ UNCHANGED <<lsObjects, lsCurrent, lsPolls, lsSignedIn>>
  /\ UNCHANGED <<outsideLogins, log>>

\* ... and its continuation: a new state object replaces the current one
StartResumes ==
  \E i \in DOMAIN lsCalls :
    /\ lsCalls[i].kind = "start"
    /\ lsObjects' = Append(lsObjects, NewLoginState(Len(lsObjects) + 1))
    /\ lsCurrent' = Len(lsObjects) + 1
    /\ lsCalls' = Leaves(lsCalls, i)
    /\ toast' = <<Toast("info", <<"Open the Auth URL shown below in a browser, then click Check Login Status">>)>>
    /\ UNCHANGED <<lsPolls, lsSignedIn>>
    /\ UNCHANGED <<outsideLogins, log>>

\* the user signs in at the auth URL of a PIN
UserSignsIn ==
  \E i \in DOMAIN lsObjects :
    /\ lsObjects[i].pinId \notin lsSignedIn
    /\ lsSignedIn' = lsSignedIn \cup {lsObjects[i].pinId}
    /\ toast' = <<>>
    /\ UNCHANGED <<lsObjects, lsCurrent, lsCalls, lsPolls>>
    /\ UNCHANGED <<outsideLogins, log>>

\* checkPlexLogin up to its PIN poll: it keeps the state object that is
\* current at the call; without one it only warns
CheckCalled ==
  IF lsCurrent = 0
  THEN /\ toast' = <<Toast("warning", <<"Click \"Login with Plex\" first">>)>>
       /\ toast # toast'
       /\ UNCHANGED <<lsObjects, lsCurrent, lsCalls, lsPolls, lsSignedIn>>
       /\ UNCHANGED <<outsideLogins, log>>
  ELSE /\ Len(lsCalls) < MaxCalls
       /\ Len(lsPolls) < MaxPolls
       /\ lsPolls' = Append(lsPolls, [pinId |-> lsObjects[lsCurrent].pinId,
                                      authToken |-> <<>>, listed |-> <<>>])
       /\ lsCalls' = Append(lsCalls, [kind |-> "check", pc |-> "polling",
                                      state |-> lsCurrent, poll |-> Len(lsPolls) + 1])
       /\ toast' = <<>>
       /\ UNCHANGED <<lsObjects, lsCurrent, lsSignedIn>>
       /\ UNCHANGED <<outsideLogins, log>>

\* the PIN poll answers: without an auth token the check ends here
PollAnswers ==
  \E i \in DOMAIN lsCalls :
    LET c == lsCalls[i]
        signedIn == c.kind = "check" /\ lsPolls[c.poll].pinId \in lsSignedIn
    IN /\ c.kind = "check" /\ c.pc = "polling"
       /\ lsPolls' = IF signedIn
                     THEN [lsPolls EXCEPT ![c.poll].authToken = <<PinToken(lsPolls[c.poll].pinId)>>]
                     ELSE lsPolls
       /\ lsCalls' = IF signedIn THEN [lsCalls EXCEPT ![i].pc = "listing"]
                     ELSE Leaves(lsCalls, i)
       /\ toast' = IF signedIn THEN <<>>
                   ELSE <<Toast("info", <<"Not yet authenticated ", EmDash,
                                          " open the Auth URL and sign in first">>)>>
       /\ UNCHANGED <<lsObjects, lsCurrent, lsSignedIn>>
       /\ UNCHANGED <<outsideLogins, log>>

\* the resources answer: the token of the poll, the servers and their
\* connection options are stored in one block
ResourcesAnswer ==
  \E i \in DOMAIN lsCalls, listed \in ListedAccounts :
    LET c == lsCalls[i]
        servers == SelectSeq(listed, ProvidesServer)
        target == StateWritten(c.state, lsCurrent)
    IN /\ c.kind = "check" /\ c.pc = "listing"
       /\ lsPolls' = [lsPolls EXCEPT ![c.poll].listed = listed]
       /\ lsObjects' =
            IF servers = <<>> THEN lsObjects
            ELSE [lsObjects EXCEPT
                    ![target].authToken = lsPolls[c.poll].authToken,
                    ![target].servers = servers,
                    ![target].connectionOptions = ConnectionOptions(servers),
                    ![target].wrote = <<[authToken |-> c.poll, servers |-> c.poll,
                                         connectionOptions |-> c.poll]>>]
       /\ lsCalls' = Leaves(lsCalls, i)
       /\ toast' = <<DiscoveryToast(servers)>>
       /\ UNCHANGED <<lsCurrent, lsSignedIn>>
       /\ UNCHANGED <<outsideLogins, log>>

\* a request to plex.tv fails: the .catch of the call shows the error
RequestFails ==
  \E i \in DOMAIN lsCalls, err \in TransportErrors :
    /\ lsCalls' = Leaves(lsCalls, i)
    /\ toast' = CatchLoginError(<<>>,
                                IF lsCalls[i].kind = "start" THEN <<"Login failed: ">>
                                ELSE <<"Check failed: ">>, err).toast
    /\ UNCHANGED <<lsObjects, lsCurrent, lsPolls, lsSignedIn>>
    /\ UNCHANGED <<outsideLogins, log>>

LoginsNext ==
  \/ StartCalled
  \/ StartResumes
  \/ UserSignsIn
  \/ CheckCalled
  \/ PollAnswers
  \/ ResourcesAnswer
  \/ RequestFails

SpecLogins == LoginsInit /\ [][LoginsNext]_vars

\* the state object the settings UI and applyPlexServer read
VisibleLogin == lsObjects[lsCurrent]

\* nothing of a check is stored in the object s
HoldsNothing(s) ==
  s.authToken = <<>> /\ s.servers = <<>> /\ s.connectionOptions = <<>> /\ s.wrote = <<>>

\* what the object s holds is what poll k of its own PIN obtained
HoldsPoll(s, k) ==
  /\ s.wrote = <<[authToken |-> k, servers |-> k, connectionOptions |-> k]>>
  /\ lsPolls[k].pinId = s.pinId
  /\ s.authToken = lsPolls[k].authToken
  /\ s.authToken = <<PinToken(s.pinId)>>
  /\ s.servers = SelectSeq(lsPolls[k].listed, ProvidesServer)
  /\ s.connectionOptions = ConnectionOptions(s.servers)

\* C36: under any interleaving of startPlexLogin and checkPlexLogin calls,
\* the login state visible to the settings UI and to applyPlexServer holds
\* an auth token, server list and connection options that were all obtained
\* from one poll of the PIN stored in that same state.
C36_LoginStateFromOnePoll ==
  lsCurrent # 0 =>
    \/ HoldsNothing(VisibleLogin)
    \/ \E k \in DOMAIN lsPolls : HoldsPoll(VisibleLogin, k)

\* C36 witness: a check of the first PIN still waits for its resources while
\* a later login has replaced the state and a check of the new PIN, called
\* after it, has already stored its results.
C36_Witness ==
  /\ lsCurrent = 2
  /\ \E i \in DOMAIN lsCalls :
       lsCalls[i].kind = "check" /\ lsCalls[i].pc = "listing" /\ lsCalls[i].state = 1
  /\ \E k \in DOMAIN lsPolls : HoldsPoll(VisibleLogin, k)

----------------------------------------------------------------------------
(* Applying a connection option of a completed discovery.                  *)

\* a server another account shares, with the access token of the share
SharedServer(conns) ==
  [clientIdentifier |-> <<"s", "r", "v", "C">>, name |-> <<"B", "a", "y">>, accessToken |-> <<"t", "o", "k", "C", "9">>,
   provides |-> <<"s", "e", "r", "v", "e", "r">>, connections |-> conns]

\* the accounts of the discovery model, and accounts with two servers that
\* each have an access token
ApplyAccounts ==
  Accounts \cup {<<ServerA(<<c>>), SharedServer(<<d>>)>> : c \in ConnPool, d \in ConnPool}

\* a check has completed for the account; no connection was applied yet
ApplyInit ==
  /\ BrowseIdle
  /\ TokenIdle
  /\ PluginIdle
  /\ ClassifyIdle
  /\ GatewayIdle
  /\ UnitIdle
  /\ resources \in ApplyAccounts
  /\ pinAuthorized = TRUE
  /\ plexLoginState = LoggedIn(resources)
  /\ loginPc = "idle"
  /\ loginPromise = "none"

ApplyNext == ApplyPlexServer

SpecApply == ApplyInit /\ [][ApplyNext]_vars

\* what an option stands for: a server and the host, port and protocol to
\* reach it by
OptionItem(s, host, port, protocol) ==
  [s |-> s, host |-> host, port |-> port, protocol |-> protocol]

ServerFallbackItems(s) ==
  LET http == SelectSeq(s.connections, LAMBDA c : c.protocol = Http)
  IN [k \in 1..Len(http) |-> OptionItem(s, http[k].address, http[k].port, Http)]

RECURSIVE FallbackItems(_)
FallbackItems(servers) ==
  IF servers = <<>> THEN <<>>
  ELSE ServerFallbackItems(Head(servers)) \o FallbackItems(Tail(servers))

\* the servers and addresses behind the options of a completed check, in the
\* order of the options
OptionItems(servers) ==
  LET kept == Survivors(servers)
  IN IF kept = <<>> THEN FallbackItems(servers)
     ELSE [i \in 1..Len(kept) |->
             OptionItem(kept[i].s, kept[i].host, kept[i].port, kept[i].protocol)]

\* the selector string of an option: identity, host, port and protocol
ItemValue(item) ==
  item.s.clientIdentifier \o <<"|">> \o item.host \o <<"|">> \o ToStr(item.port)
  \o <<"|">> \o item.protocol

\* the step applies the option for item: the stored settings and the client
\* of the new adapter hold the item's host, port and protocol, and the access
\* token of the item's server when the account lists one for it
AppliesItem(item) ==
  /\ config'.host = item.host
  /\ config'.port = item.port
  /\ config'.https = (item.protocol = Https)
  /\ (item.s.accessToken # <<>> => config'.token = item.s.accessToken)
  /\ adapter'.plexService = <<config'>>

C37_Step ==
  Checked =>
    LET options == plexLoginState[1].connectionOptions
        items == OptionItems(plexLoginState[1].servers)
    IN /\ Len(items) = Len(options)
       /\ \A i \in 1..Len(options) :
            /\ options[i].value = ItemValue(items[i])
            /\ applyPlexServer(options[i].value) => AppliesItem(items[i])

----------------------------------------------------------------------------
(* The state-mask wrappers across start, stop and settings changes.        *)

\* C38: for any sequence of start, stop, save-settings and apply-connection
\* operations, at most one state-masking wrapper is installed on the host's
\* servicePushState while the plugin is started, and after the plugin is
\* stopped the host's original servicePushState is in place again.
C38_OneWrapperWhileStarted ==
  /\ started => servicePushState <= 1
  /\ ~started => servicePushState = 0

\* C38 witness: the plugin was started and stopped by the same adapter; the
\* wrapper it installed is gone.
C38_Witness ==
  /\ ~started
  /\ log = << <<"[Plex] onStop">> >>
  /\ adapter.plexService = <<>>
  /\ servicePushState = 0

====
